---- MODULE Spec2Model ----
(***************************************************************************)
(* jfinder acquisition pipeline: the in-memory task store (TaskManager),    *)
(* the paper-finder pipeline (search endpoint, processTopicSearch,          *)
(* processDOISearch, processResults, downloadPapers) and the multi-source   *)
(* download racer (createDownloadAttempts, raceDownloads,                   *)
(* downloadAndSavePaper).                                                   *)
(*                                                                          *)
(* Three specifications share the variables:                                *)
(*   Spec      one request travelling through the pipeline, one action per  *)
(*             code segment between two awaits;                             *)
(*   SpecRace  one item's race, adapters settling in any order;             *)
(*   SpecStore the task store under any sequence of its operations, with    *)
(*             the clock and the periodic sweep.                            *)
(***************************************************************************)
EXTENDS Integers, Sequences, FiniteSets, TLC

(***************************************************************************)
(* Bounds of the model                                                      *)
(***************************************************************************)
MaxCycles == 2
MaxPapers == 2
MaxBatch == 2
MaxDois == 2
MaxTasks == 2
MaxTime == 2
MaxTTL == 2
MaxOps == 4
MaxTries == 2
MaxHops == 2
MaxLines == 20
MaxItems == 2

VARIABLES
    tasks,            \* TaskManager.tasks: Map<id, TaskStatus>
    now,              \* the clock read by new Date() / Date.now()
    maxAge,           \* env.TASK_TTL_MS
    enabledSources,   \* defaultEnabledSources
    pc,               \* the await the pipeline is suspended at
    taskId,           \* params.taskId
    mode,             \* "topic" (processTopicSearch) or "doi" (processDOISearch)
    cycles,           \* params.cycles
    papers,           \* params.papers
    downloadType,     \* params.downloadType
    searchQueries,    \* processTopicSearch: searchQueries
    broaderQueries,   \* processTopicSearch: broaderQueries of the last splice
    cycle,            \* processTopicSearch: loop variable cycle
    allPapers,        \* processTopicSearch / processDOISearch: allPapers
    seenDois,         \* processTopicSearch: seenDois
    executed,         \* queries handed to searchPapers, in order
    doiFile,          \* lines of the uploaded DOI file
    dois,             \* params.dois
    lookedUp,         \* DOIs handed to lookupByDoi, in order
    idx,              \* loop variable i of processDOIList / downloadPapers
    successful,       \* downloadPapers: successful
    failed,           \* downloadPapers: failed
    race,             \* SpecRace: the state of one downloadAndSavePaper call
    opLog,            \* SpecStore: the last store operation and its effect
    held,             \* SpecAlias: the reference a caller of getTask holds
    call,             \* SpecAdapter: the state of one adapter's download() call
    gap               \* SpecGap: one gap-analysis request, its task and its counts

storeVars == <<tasks, now, maxAge>>
reqVars == <<taskId, mode, cycles, papers, downloadType, doiFile, dois>>
searchVars == <<searchQueries, broaderQueries, cycle, allPapers, seenDois, executed>>
doiVars == <<lookedUp>>
dlVars == <<successful, failed>>
vars == <<tasks, now, maxAge, enabledSources, pc, taskId, mode, cycles, papers,
          downloadType, searchQueries, broaderQueries, cycle, allPapers,
          seenDois, executed, doiFile, dois, lookedUp, idx, successful,
          failed, race, opLog, held, call, gap>>

(***************************************************************************)
(* Small helpers                                                            *)
(***************************************************************************)
Min(a, b) == IF a < b THEN a ELSE b
Max(a, b) == IF a > b THEN a ELSE b
Range(s) == {s[k] : k \in 1..Len(s)}
SeqsUpTo(S, n) == UNION {[1..k -> S] : k \in 0..n}

\* Math.round of the non-negative rational num/den (den > 0): half rounds up
MathRound(num, den) == (2 * num + den) \div (2 * den)

(***************************************************************************)
(* Task store (TaskManager)                                                 *)
(***************************************************************************)
TaskIds == 1..MaxTasks

\* uuidv4(): an identifier no task of the store carries
NewId == CHOOSE id \in TaskIds : id \notin DOMAIN tasks

NewTask(totalPapers, totalCycles, t) ==
    [status |-> "pending", progress |-> 0, message |-> "Initializing...",
     totalPapers |-> totalPapers, papersFound |-> 0, papersDownloaded |-> 0,
     currentCycle |-> 0, totalCycles |-> totalCycles,
     error |-> "undefined", downloadUrl |-> "undefined",
     metadataUrl |-> "undefined", lastUpdate |-> t]

\* createTask: this.tasks.set(id, task)
CreateTask(store, id, totalPapers, totalCycles, t) ==
    [x \in DOMAIN store \cup {id} |->
        IF x = id THEN NewTask(totalPapers, totalCycles, t) ELSE store[x]]

\* Object.assign(task, updates, { lastUpdate: new Date() })
Assign(task, updates, t) ==
    [f \in DOMAIN task |->
        IF f = "lastUpdate" THEN t
        ELSE IF f \in DOMAIN updates THEN updates[f] ELSE task[f]]

\* mutant: an absent task is created from the updates
UpdateTask_Upsert(store, id, updates, t) ==
    [x \in DOMAIN store \cup {id} |->
        IF x = id
        THEN Assign(IF id \in DOMAIN store THEN store[id] ELSE NewTask(0, 1, t),
                    updates, t)
        ELSE store[x]]

\* mutant: an update stamps every task of the store
UpdateTask_TouchAll(store, id, updates, t) ==
    IF id \notin DOMAIN store THEN store
    ELSE [x \in DOMAIN store |->
            IF x = id THEN Assign(store[id], updates, t)
            ELSE [store[x] EXCEPT !.lastUpdate = t]]

\* updateTask: no-op when the task is absent
UpdateTask(store, id, updates, t) ==
    IF id \notin DOMAIN store THEN store
    ELSE [store EXCEPT ![id] = Assign(store[id], updates, t)]

StartProcessing(store, id, message, t) ==
    UpdateTask(store, id,
        [status |-> "processing", message |-> message, progress |-> 5], t)

\* cycleProgress = totalCycles > 0 ? min(90, 5 + currentCycle*85/totalCycles) : 50
CycleProgress(currentCycle, totalCycles) ==
    IF totalCycles > 0
    THEN IF 5 * totalCycles + currentCycle * 85 > 90 * totalCycles
         THEN 90
         ELSE MathRound(5 * totalCycles + currentCycle * 85, totalCycles)
    ELSE 50

UpdateCycleProgress(store, id, message, currentCycle, papersFound, t) ==
    IF id \notin DOMAIN store THEN store
    ELSE UpdateTask(store, id,
            [message |-> message, currentCycle |-> currentCycle,
             papersFound |-> papersFound,
             progress |-> CycleProgress(currentCycle, store[id].totalCycles)], t)

\* mutant: the downloaded share is taken in percent
DownloadProgress_Percent(papersDownloaded, total) ==
    MathRound(90 * total + papersDownloaded * 100, total)

\* Math.round(90 + (papersDownloaded / total) * 10)
DownloadProgress(papersDownloaded, total) ==
    MathRound(90 * total + papersDownloaded * 10, total)

UpdateDownloadProgress(store, id, papersDownloaded, total, t) ==
    IF id \notin DOMAIN store THEN store
    ELSE UpdateTask(store, id,
            [message |-> "Downloading papers (n/total)...",
             papersDownloaded |-> papersDownloaded,
             progress |-> DownloadProgress(papersDownloaded, total)], t)

\* mutant: completeTask leaves the progress where it was
CompleteTask_KeepProgress(store, id, downloadUrl, metadataUrl, t) ==
    UpdateTask(store, id,
        [status |-> "complete", message |-> "Complete",
         downloadUrl |-> downloadUrl, metadataUrl |-> metadataUrl], t)

CompleteTask(store, id, downloadUrl, metadataUrl, t) ==
    UpdateTask(store, id,
        [status |-> "complete", progress |-> 100, message |-> "Complete",
         downloadUrl |-> downloadUrl, metadataUrl |-> metadataUrl], t)

\* mutant: failTask resets the progress
FailTask_ResetProgress(store, id, error, t) ==
    UpdateTask(store, id,
        [status |-> "error", error |-> error, message |-> error, progress |-> 0], t)

FailTask(store, id, error, t) ==
    UpdateTask(store, id,
        [status |-> "error", error |-> error, message |-> error], t)

Undefined == [undefined |-> TRUE]

\* getTask: this.tasks.get(taskId)
GetTask(store, id) == IF id \in DOMAIN store THEN store[id] ELSE Undefined

\* the reference is to the task object itself: while the object is in the
\* store (live) reading it gives the store's record, after its eviction the
\* record it had then (last)
NoHeld == [id |-> 0, seen |-> Undefined, live |-> FALSE, last |-> Undefined]
HeldValue ==
    IF held.seen = Undefined THEN Undefined
    ELSE IF held.live THEN tasks[held.id] ELSE held.last

\* mutant: a task whose age equals the TTL is deleted too
CleanupOldTasks_AtLeast(store, t, ttl) ==
    [x \in {y \in DOMAIN store : ~(t - store[y].lastUpdate >= ttl)} |-> store[x]]

\* cleanupOldTasks: delete every task with now - lastUpdate > maxAge
CleanupOldTasks(store, t, ttl) ==
    [x \in {y \in DOMAIN store : ~(t - store[y].lastUpdate > ttl)} |-> store[x]]

(***************************************************************************)
(* Papers and the metadata provider                                         *)
(***************************************************************************)
Null == [null |-> TRUE]

Paper(doi, title, openAccessUrl) ==
    [doi |-> doi, title |-> title, openAccessUrl |-> openAccessUrl]

\* what searchPapers can return for one query: the provider decides, and a
\* provider error is the empty list.  Titles and DOIs are sequences of
\* characters (a DOI's "10." prefix is one token).
PaperPool ==
    {Paper(<<"10.", "a">>, <<"A">>, TRUE), Paper(<<"10.", "a">>, <<"B">>, FALSE),
     Paper(<<"10.", "b">>, <<"A", "?">>, FALSE)}

SearchResults == SeqsUpTo(PaperPool, MaxBatch)

\* what the provider's search request does: a page of works, a non-ok HTTP
\* status, or an exception (network error, invalid JSON)
ProviderResponses ==
    {[kind |-> "ok", works |-> r] : r \in SearchResults}
    \cup {[kind |-> "http-error", works |-> <<>>], [kind |-> "throw", works |-> <<>>]}

\* mutant: a provider error is thrown on to the caller
SearchPapers_Propagate(response) ==
    [thrown |-> response.kind # "ok",
     papers |-> IF response.kind = "ok" THEN response.works ELSE <<>>]

\* searchPapers (searchOpenAlex / searchScopus): [] on a non-ok status and on
\* a caught exception; it never throws
SearchPapers(response) ==
    [thrown |-> FALSE,
     papers |-> IF response.kind = "ok" THEN response.works ELSE <<>>]

(***************************************************************************)
(* Query generation (generateSearchQueries, padQueries)                     *)
(***************************************************************************)
\* a cleaned line of the LLM's answer; hasAnd: the line contains ' AND '
LLMQuery(gen, n, hasAnd) ==
    [gen |-> gen, n |-> n, kind |-> "llm", hasAnd |-> hasAnd]

\* TITLE-ABS-KEY("<topic>")
FallbackQuery == [gen |-> 0, n |-> 0, kind |-> "fallback", hasAnd |-> FALSE]

\* lastQuery.split(' AND ')[0]
SplitAnd(q) == [q EXCEPT !.kind = "split", !.hasAnd = FALSE]

\* a line of the answer without 'TITLE-ABS-KEY'
TextLine == [gen |-> 0, n |-> 0, kind |-> "text", hasAnd |-> FALSE]

\* what the chat completion request does for a request for n queries: the
\* call fails (error, timeout, non-ok status, empty content), or it answers
\* with no usable line, with a single usable line holding ' AND ' after a
\* line of text, or with one usable line too many
LLMResponses(n, gen) ==
    {[ok |-> FALSE, lines |-> <<>>],
     [ok |-> TRUE, lines |-> <<TextLine>>],
     [ok |-> TRUE, lines |-> <<TextLine, LLMQuery(gen, 1, TRUE)>>],
     [ok |-> TRUE, lines |-> [k \in 1..(n + 1) |-> LLMQuery(gen, k, FALSE)]]}

\* callOpenRouter: the content, or null (here: no lines) on any failure
CallOpenRouter(response) == IF response.ok THEN response.lines ELSE <<>>

\* cleanQuery: null unless the line contains 'TITLE-ABS-KEY'
CleanQuery(line) == IF line.kind = "text" THEN Null ELSE line

RECURSIVE PadLoop(_, _)
PadLoop(result, numCycles) ==
    IF Len(result) >= numCycles THEN result
    ELSE LET lastQuery == IF Len(result) > 0 THEN result[Len(result)]
                          ELSE FallbackQuery
         IN PadLoop(Append(result, IF lastQuery.hasAnd THEN SplitAnd(lastQuery)
                                   ELSE FallbackQuery), numCycles)

\* mutant: the list is cut to numCycles but never padded
PadQueries_NoPad(queries, numCycles) ==
    SubSeq(queries, 1, Min(numCycles, Len(queries)))

\* result.slice(0, numCycles)
PadQueries(queries, numCycles) ==
    SubSeq(PadLoop(queries, numCycles), 1, Min(numCycles, Len(PadLoop(queries, numCycles))))

\* generateSearchQueries(topic, numCycles), given what the LLM call does
GenerateSearchQueries(response, numCycles) ==
    LET content == CallOpenRouter(response)
        queries == SelectSeq([k \in 1..Len(content) |-> CleanQuery(content[k])],
                             LAMBDA q : q # Null)
    IN PadQueries(queries, numCycles)

\* mutant: the items are inserted and nothing is deleted
Splice_InsertOnly(s, start, deleteCount, items) ==
    LET st == Min(Max(start, 0), Len(s))
    IN SubSeq(s, 1, st) \o items \o SubSeq(s, st + 1, Len(s))

\* mutant: only one of the queries to be replaced is deleted
Splice_DeleteOne(s, start, deleteCount, items) ==
    LET st == Min(Max(start, 0), Len(s))
        dc == Min(Max(Min(deleteCount, 1), 0), Len(s) - st)
    IN SubSeq(s, 1, st) \o items \o SubSeq(s, st + dc + 1, Len(s))

\* searchQueries.splice(start, deleteCount, ...items), start is 0-based
Splice(s, start, deleteCount, items) ==
    LET st == Min(Max(start, 0), Len(s))
        dc == Min(Max(deleteCount, 0), Len(s) - st)
    IN SubSeq(s, 1, st) \o items \o SubSeq(s, st + dc + 1, Len(s))

(***************************************************************************)
(* Search endpoint (POST) for a topic                                       *)
(***************************************************************************)
Clamp(x, lo, hi) == Min(Max(x, lo), hi)

CycleChoices == (1..MaxCycles) \cup {10}

PostTopic(c, p, dt) ==
    /\ pc = "idle"
    /\ LET id == NewId
           cl == Clamp(c, 1, 20)
           pl == Clamp(p, 1, 250)
       IN /\ tasks' = CreateTask(tasks, id, pl, cl, now)
          /\ taskId' = id
          /\ cycles' = cl
          /\ papers' = pl
    /\ mode' = "topic"
    /\ downloadType' = dt
    /\ pc' = "ensureDir"
    /\ UNCHANGED <<now, maxAge, enabledSources, searchVars, doiFile, dois,
                   lookedUp, idx, dlVars, race, opLog, held, call, gap>>

(***************************************************************************)
(* processResults, first part: up to the first await                        *)
(***************************************************************************)
\* updateTask({progress: 95}) and the await of writeFile(details.txt)
MetadataStart(store) ==
    [tasks |-> UpdateTask(store, taskId,
                  [message |-> "Generating metadata...", progress |-> 95], now),
     pc |-> "writeMetadata"]

ProcessResultsStart(store) ==
    IF downloadType = "full"
    THEN [tasks |-> UpdateTask(store, taskId,
                       [message |-> "Downloading papers...", progress |-> 50], now),
          pc |-> "dlEnsureDir"]
    ELSE MetadataStart(store)

\* mutant: an empty catch block
CatchError_Swallow(store) == store

\* the catch block of processTopicSearch / processDOISearch
CatchError(store) ==
    FailTask(store, taskId,
             IF mode = "topic" THEN "Search failed: error"
             ELSE "DOI processing failed: error", now)

(***************************************************************************)
(* processTopicSearch                                                       *)
(***************************************************************************)
\* mutant: the return after failTask is missing
AfterSearchLoop_NoReturn(store, all) ==
    ProcessResultsStart(
        UpdateTask(IF Len(all) = 0
                   THEN FailTask(store, taskId, "No papers found", now)
                   ELSE store,
                   taskId,
                   [papersFound |-> Len(all), message |-> "Preparing to download..."], now))

\* after the cycle loop: fail on an empty collection, else record the count
\* and enter processResults
AfterSearchLoop(store, all) ==
    IF Len(all) = 0
    THEN [tasks |-> FailTask(store, taskId, "No papers found", now), pc |-> "done"]
    ELSE ProcessResultsStart(
            UpdateTask(store, taskId,
                [papersFound |-> Len(all), message |-> "Preparing to download..."], now))

\* mutant: the loop does not test the target before the next query
LoopHead_NoTargetCheck(store, cyc, all, queries) ==
    IF cyc < Len(queries)
    THEN [tasks |-> UpdateCycleProgress(store, taskId, "Cycle c/n: Searching...",
                        cyc + 1, Len(all), now),
          pc |-> "search"]
    ELSE AfterSearchLoop(store, all)

\* the head of the for loop at index cyc, up to the await of searchPapers
LoopHead(store, cyc, all, queries) ==
    IF cyc < Len(queries) /\ ~(Len(all) >= papers)
    THEN [tasks |-> UpdateCycleProgress(store, taskId, "Cycle c/n: Searching...",
                        cyc + 1, Len(all), now),
          pc |-> "search"]
    ELSE AfterSearchLoop(store, all)

\* the end of the loop body at index cyc: the delay, or the next iteration
LoopTail(store, cyc, all, queries) ==
    IF cyc < Len(queries) - 1
    THEN [tasks |-> store, pc |-> "cycleDelay", cycle |-> cyc]
    ELSE [tasks |-> LoopHead(store, cyc + 1, all, queries).tasks,
          pc |-> LoopHead(store, cyc + 1, all, queries).pc,
          cycle |-> cyc + 1]

\* mutant: every returned paper is collected, seen or not
RECURSIVE Dedup_NoSeenCheck(_, _, _, _)
Dedup_NoSeenCheck(all, seen, results, target) ==
    IF results = <<>> THEN [all |-> all, seen |-> seen]
    ELSE LET paper == Head(results)
         IN IF Len(all) + 1 >= target
            THEN [all |-> Append(all, paper), seen |-> seen \cup {paper.doi}]
            ELSE Dedup_NoSeenCheck(Append(all, paper), seen \cup {paper.doi},
                                   Tail(results), target)

\* for (const paper of results) { if (!seenDois.has(paper.doi)) ... }
RECURSIVE Dedup(_, _, _, _)
Dedup(all, seen, results, target) ==
    IF results = <<>> THEN [all |-> all, seen |-> seen]
    ELSE LET paper == Head(results)
         IN IF paper.doi \notin seen
            THEN IF Len(all) + 1 >= target
                 THEN [all |-> Append(all, paper), seen |-> seen \cup {paper.doi}]
                 ELSE Dedup(Append(all, paper), seen \cup {paper.doi},
                            Tail(results), target)
            ELSE Dedup(all, seen, Tail(results), target)

\* await ensureDir(taskDir) returns: startProcessing, then the await of
\* generateSearchQueries (topic) or of the first lookup (DOI list)
StartTopic ==
    /\ pc = "ensureDir"
    /\ mode = "topic"
    /\ tasks' = StartProcessing(tasks, taskId, "Generating search queries...", now)
    /\ pc' = "genQueries"
    /\ UNCHANGED <<now, maxAge, enabledSources, reqVars, searchVars, lookedUp,
                   idx, dlVars, race, opLog, held, call, gap>>

\* generateSearchQueries(topic, cycles) returns; first loop iteration
QueriesReturn(response) ==
    /\ pc = "genQueries"
    /\ LET queries == GenerateSearchQueries(response, cycles)
           h == LoopHead(tasks, 0, <<>>, queries)
       IN /\ searchQueries' = queries
          /\ tasks' = h.tasks
          /\ pc' = h.pc
          /\ executed' = IF h.pc = "search" THEN <<queries[1]>> ELSE <<>>
    /\ cycle' = 0
    /\ allPapers' = <<>>
    /\ seenDois' = {}
    /\ UNCHANGED <<now, maxAge, enabledSources, reqVars, broaderQueries,
                   lookedUp, idx, dlVars, race, opLog, held, call, gap>>

\* the rest of one loop body and the head of the next, given the schedule
Continue(store, all, queries) ==
    LET t == LoopTail(store, cycle, all, queries)
    IN /\ tasks' = t.tasks
       /\ pc' = t.pc
       /\ cycle' = t.cycle
       /\ executed' = IF t.pc = "search"
                      THEN Append(executed, queries[t.cycle + 1])
                      ELSE executed

\* mutant: the halfway point counted in executed queries, not as an index
HalfwayCycle_Count(c) == c \div 2 - 1

\* Math.floor(cycles / 2)
HalfwayCycle(c) == c \div 2

\* searchPapers returns (a throw would reach the catch block): deduplicate,
\* then broaden, delay or iterate
SearchReturn(response) ==
    /\ pc = "search"
    /\ LET r == SearchPapers(response)
           d == Dedup(allPapers, seenDois, r.papers, papers)
           halfwayCycle == HalfwayCycle(cycles)
       IN IF r.thrown
          THEN /\ tasks' = CatchError(tasks)
               /\ pc' = "done"
               /\ UNCHANGED <<allPapers, seenDois, cycle, executed>>
          ELSE /\ allPapers' = d.all
               /\ seenDois' = d.seen
               /\ IF cycle = halfwayCycle /\ Len(d.all) * 10 < papers * 8
                  THEN /\ tasks' = UpdateTask(tasks, taskId,
                                      [message |-> "Broadening search scope..."], now)
                       /\ pc' = "broaden"
                       /\ UNCHANGED <<cycle, executed>>
                  ELSE Continue(tasks, d.all, searchQueries)
    /\ UNCHANGED <<now, maxAge, enabledSources, reqVars, searchQueries,
                   broaderQueries, lookedUp, idx, dlVars, race, opLog, held, call, gap>>

\* generateSearchQueries(topic, cycles - cycle - 1, allPapers) returns: splice
BroadenReturn(response) ==
    /\ pc = "broaden"
    /\ LET bq == GenerateSearchQueries(response, cycles - cycle - 1)
           queries == Splice(searchQueries, cycle + 1,
                             Len(searchQueries) - cycle - 1, bq)
       IN /\ broaderQueries' = bq
          /\ searchQueries' = queries
          /\ Continue(tasks, allPapers, queries)
    /\ UNCHANGED <<now, maxAge, enabledSources, reqVars, allPapers, seenDois,
                   lookedUp, idx, dlVars, race, opLog, held, call, gap>>

\* the 1000 ms delay between cycles is over: next iteration
CycleDelayDone ==
    /\ pc = "cycleDelay"
    /\ LET h == LoopHead(tasks, cycle + 1, allPapers, searchQueries)
       IN /\ tasks' = h.tasks
          /\ pc' = h.pc
          /\ executed' = IF h.pc = "search"
                         THEN Append(executed, searchQueries[cycle + 2])
                         ELSE executed
    /\ cycle' = cycle + 1
    /\ UNCHANGED <<now, maxAge, enabledSources, reqVars, searchQueries,
                   broaderQueries, allPapers, seenDois, lookedUp, idx, dlVars,
                   race, opLog, held, call, gap>>

(***************************************************************************)
(* File names (createSafeFilename) over titles as character sequences       *)
(***************************************************************************)
MaxFilenameLength == 100

Alnum == {"A", "B", "C", "N", "F"}
IsSpace(c) == c = " "

\* replace every maximal run of characters of the set run by one "_"
RECURSIVE SquashRuns(_, _)
SquashRuns(run, s) ==
    IF s = <<>> THEN <<>>
    ELSE IF Head(s) \in run
         THEN IF Len(s) > 1 /\ s[2] \in run
              THEN SquashRuns(run, Tail(s))
              ELSE <<"_">> \o SquashRuns(run, Tail(s))
         ELSE <<Head(s)>> \o SquashRuns(run, Tail(s))

RECURSIVE TrimStart(_)
TrimStart(s) == IF s # <<>> /\ IsSpace(Head(s)) THEN TrimStart(Tail(s)) ELSE s

RECURSIVE TrimEnd(_)
TrimEnd(s) ==
    IF s # <<>> /\ IsSpace(s[Len(s)]) THEN TrimEnd(SubSeq(s, 1, Len(s) - 1)) ELSE s

CreateSafeFilename(title) ==
    LET a == [k \in 1..Len(title) |->
                 IF title[k] \in Alnum \cup {" ", "-", "_"} THEN title[k] ELSE "_"]
        b == SquashRuns({" "}, a)
        c == SquashRuns({"_"}, b)
        d == SubSeq(c, 1, Min(MaxFilenameLength, Len(c)))
        e == TrimEnd(TrimStart(d))
    IN IF e # <<>> /\ e[Len(e)] = "_" THEN SubSeq(e, 1, Len(e) - 1) ELSE e

(***************************************************************************)
(* Source racer (createDownloadAttempts, raceDownloads,                     *)
(* downloadAndSavePaper)                                                    *)
(***************************************************************************)
\* getEnabledSources(): the free sources, plus annas-archive with an API key
FreeSources == <<"unpaywall", "openalex-oa", "scihub", "libgen">>
GetEnabledSources(apiKey) ==
    IF apiKey THEN Append(FreeSources, "annas-archive") ELSE FreeSources

\* what one adapter's download() does: a buffer, null, or an exception
Outcomes == {"bytes", "null", "throw"}

\* mutant: the open-access adapter is launched for every item
CreateDownloadAttempts_AlwaysOpenAccess(paper, enabled) ==
    (IF "openalex-oa" \in Range(enabled) THEN <<"openalex-oa">> ELSE <<>>)
    \o (IF "unpaywall" \in Range(enabled) THEN <<"unpaywall">> ELSE <<>>)
    \o (IF "scihub" \in Range(enabled) THEN <<"scihub">> ELSE <<>>)
    \o (IF "libgen" \in Range(enabled) THEN <<"libgen">> ELSE <<>>)
    \o (IF "annas-archive" \in Range(enabled) THEN <<"annas-archive">> ELSE <<>>)

CreateDownloadAttempts(paper, enabled) ==
    (IF "openalex-oa" \in Range(enabled) /\ paper.openAccessUrl
     THEN <<"openalex-oa">> ELSE <<>>)
    \o (IF "unpaywall" \in Range(enabled) THEN <<"unpaywall">> ELSE <<>>)
    \o (IF "scihub" \in Range(enabled) THEN <<"scihub">> ELSE <<>>)
    \o (IF "libgen" \in Range(enabled) THEN <<"libgen">> ELSE <<>>)
    \o (IF "annas-archive" \in Range(enabled) THEN <<"annas-archive">> ELSE <<>>)

\* the wrapper promise of one attempt: the source on a buffer, null on
\* null and on a caught exception
AttemptResult(source, outcome) ==
    IF outcome = "bytes" THEN [source |-> source] ELSE Null

\* for (const result of results) if (result) return result; return null
FirstSuccess(results) ==
    IF \E k \in 1..Len(results) : results[k] # Null
    THEN results[CHOOSE k \in 1..Len(results) :
                    /\ results[k] # Null
                    /\ \A j \in 1..(k - 1) : results[j] = Null]
    ELSE Null

\* mutant: Promise.all over the bare download() promises, so that one
\* exception rejects the whole race
RaceDownloads_RejectOnThrow(attempts, outcomes) ==
    IF Len(attempts) = 0 THEN Null
    ELSE IF \E k \in 1..Len(attempts) : outcomes[k] = "throw" THEN Null
    ELSE FirstSuccess([k \in 1..Len(attempts) |-> AttemptResult(attempts[k], outcomes[k])])

\* raceDownloads once every attempt has settled with outcomes[k]
RaceDownloads(attempts, outcomes) ==
    IF Len(attempts) = 0 THEN Null
    ELSE FirstSuccess([k \in 1..Len(attempts) |-> AttemptResult(attempts[k], outcomes[k])])

DownloadResult(success, source, filePath, error) ==
    [success |-> success, source |-> source, filePath |-> filePath, error |-> error]

\* downloadAndSavePaper, given what the adapters and fsWriteFile do
DownloadAndSavePaper(paper, enabled, outcomes, writeOk) ==
    LET attempts == CreateDownloadAttempts(paper, enabled)
        result == RaceDownloads(attempts, outcomes)
    IN IF Len(attempts) = 0
       THEN DownloadResult(FALSE, "undefined", "undefined",
                           "No download sources configured")
       ELSE IF result = Null
       THEN DownloadResult(FALSE, "undefined", "undefined",
                           "Failed to download from all sources")
       ELSE IF writeOk
       THEN DownloadResult(TRUE, result.source,
                           CreateSafeFilename(paper.title) \o <<".pdf">>, "undefined")
       ELSE DownloadResult(FALSE, "undefined", "undefined", "Failed to save file")

FailedDownload(paper, error, attemptedSources) ==
    [paper |-> paper, error |-> error, attemptedSources |-> attemptedSources]

(***************************************************************************)
(* downloadPapers and the rest of processResults                            *)
(***************************************************************************)
\* mutant: the failure lists the launched attempts instead of enabledSources
RecordItem_Launched(paper, result, enabled, okList, failList) ==
    IF result.success /\ result.filePath # "undefined"
    THEN [successful |-> Append(okList, result.filePath), failed |-> failList]
    ELSE [successful |-> okList,
          failed |-> Append(failList,
                        FailedDownload(paper, result.error,
                                       CreateDownloadAttempts(paper, enabled)))]

\* downloadPapers: the push to successful or to failed for one paper
RecordItem(paper, result, enabled, okList, failList) ==
    IF result.success /\ result.filePath # "undefined"
    THEN [successful |-> Append(okList, result.filePath), failed |-> failList]
    ELSE [successful |-> okList,
          failed |-> Append(failList, FailedDownload(paper, result.error, enabled))]

\* the head of the download loop at index i, up to the await of
\* downloadAndSavePaper; a paper without DOI is recorded and skipped at once;
\* past the last paper downloadPapers returns and processResults goes on
RECURSIVE DownloadHead(_, _, _)
DownloadHead(store, i, fl) ==
    IF i < Len(allPapers)
    THEN LET paper == allPapers[i + 1]
         IN IF paper.doi = <<>>
            THEN DownloadHead(
                    UpdateDownloadProgress(store, taskId, i + 1, Len(allPapers), now),
                    i + 1,
                    Append(fl, FailedDownload(paper, "No DOI available", <<>>)))
            ELSE [tasks |-> store, pc |-> "race", idx |-> i, failed |-> fl]
    ELSE [tasks |-> MetadataStart(store).tasks, pc |-> MetadataStart(store).pc,
          idx |-> i, failed |-> fl]

\* await ensureDir(papersDir) returns: the download loop starts
DownloadStart ==
    /\ pc = "dlEnsureDir"
    /\ LET h == DownloadHead(tasks, 0, <<>>)
       IN /\ tasks' = h.tasks
          /\ pc' = h.pc
          /\ idx' = h.idx
          /\ failed' = h.failed
    /\ successful' = <<>>
    /\ UNCHANGED <<now, maxAge, enabledSources, reqVars, searchVars, lookedUp,
                   race, opLog, held, call, gap>>

\* mutant: the first failed item fails the task and ends the pipeline
ItemRecorded_FailFast(result) ==
    /\ LET paper == allPapers[idx + 1]
           rec == RecordItem(paper, result, enabledSources, successful, failed)
           fl == rec.failed
           store == UpdateDownloadProgress(tasks, taskId, idx + 1, Len(allPapers), now)
       IN /\ successful' = rec.successful
          /\ IF ~result.success
             THEN /\ tasks' = FailTask(store, taskId, result.error, now)
                  /\ pc' = "done"
                  /\ failed' = fl
                  /\ UNCHANGED idx
             ELSE IF idx < Len(allPapers) - 1
             THEN /\ tasks' = store
                  /\ pc' = "dlDelay"
                  /\ failed' = fl
                  /\ UNCHANGED idx
             ELSE LET h == DownloadHead(store, idx + 1, fl)
                  IN /\ tasks' = h.tasks
                     /\ pc' = h.pc
                     /\ idx' = h.idx
                     /\ failed' = h.failed
    /\ UNCHANGED <<now, maxAge, enabledSources, reqVars, searchVars, lookedUp,
                   race, opLog, held, call, gap>>

\* mutant: the result is recorded but onProgress is not called
ItemRecorded_Unreported(result) ==
    /\ LET paper == allPapers[idx + 1]
           rec == RecordItem(paper, result, enabledSources, successful, failed)
           fl == rec.failed
           store == tasks
       IN /\ successful' = rec.successful
          /\ IF idx < Len(allPapers) - 1
             THEN /\ tasks' = store
                  /\ pc' = "dlDelay"
                  /\ failed' = fl
                  /\ UNCHANGED idx
             ELSE LET h == DownloadHead(store, idx + 1, fl)
                  IN /\ tasks' = h.tasks
                     /\ pc' = h.pc
                     /\ idx' = h.idx
                     /\ failed' = h.failed
    /\ UNCHANGED <<now, maxAge, enabledSources, reqVars, searchVars, lookedUp,
                   race, opLog, held, call, gap>>

\* downloadAndSavePaper returns for paper idx: record, report, delay or go on
ItemRecorded(result) ==
    /\ LET paper == allPapers[idx + 1]
           rec == RecordItem(paper, result, enabledSources, successful, failed)
           fl == rec.failed
           store == UpdateDownloadProgress(tasks, taskId, idx + 1, Len(allPapers), now)
       IN /\ successful' = rec.successful
          /\ IF idx < Len(allPapers) - 1
             THEN /\ tasks' = store
                  /\ pc' = "dlDelay"
                  /\ failed' = fl
                  /\ UNCHANGED idx
             ELSE LET h == DownloadHead(store, idx + 1, fl)
                  IN /\ tasks' = h.tasks
                     /\ pc' = h.pc
                     /\ idx' = h.idx
                     /\ failed' = h.failed
    /\ UNCHANGED <<now, maxAge, enabledSources, reqVars, searchVars, lookedUp,
                   race, opLog, held, call, gap>>

\* every result downloadAndSavePaper can return for the paper, over what the
\* launched adapters and fsWriteFile do
ItemResults(paper, enabled) ==
    {DownloadAndSavePaper(paper, enabled, outcomes, writeOk) :
        outcomes \in [1..Len(CreateDownloadAttempts(paper, enabled)) -> Outcomes],
        writeOk \in BOOLEAN}

ItemDone ==
    /\ pc = "race"
    /\ \E result \in ItemResults(allPapers[idx + 1], enabledSources) :
          ItemRecorded(result)

\* the 2000 ms delay between papers is over: next paper
DownloadDelayDone ==
    /\ pc = "dlDelay"
    /\ LET h == DownloadHead(tasks, idx + 1, failed)
       IN /\ tasks' = h.tasks
          /\ pc' = h.pc
          /\ idx' = h.idx
          /\ failed' = h.failed
    /\ UNCHANGED <<now, maxAge, enabledSources, reqVars, searchVars, lookedUp,
                   successful, race, opLog, held, call, gap>>

\* completeTask(taskId, zip url if full, metadata url)
Complete(store) ==
    CompleteTask(store, taskId,
                 IF downloadType = "full" THEN "/api/download/id/zip" ELSE "undefined",
                 "/api/download/id/metadata", now)

\* after the failed-downloads listing: zip for a full download, else complete
AfterListings(store) ==
    IF downloadType = "full"
    THEN [tasks |-> UpdateTask(store, taskId,
                       [message |-> "Creating ZIP archive...", progress |-> 98], now),
          pc |-> "zip"]
    ELSE [tasks |-> Complete(store), pc |-> "done"]

\* the failed downloads of processResults: none for a metadata-only task
FailedDownloads == IF downloadType = "full" THEN failed ELSE <<>>

\* writeFile(details.txt) returns or throws
MetadataWritten(ok) ==
    /\ pc = "writeMetadata"
    /\ IF ~ok
       THEN /\ tasks' = CatchError(tasks)
            /\ pc' = "done"
       ELSE IF Len(FailedDownloads) > 0
       THEN /\ pc' = "writeFailed"
            /\ UNCHANGED tasks
       ELSE /\ tasks' = AfterListings(tasks).tasks
            /\ pc' = AfterListings(tasks).pc
    /\ UNCHANGED <<now, maxAge, enabledSources, reqVars, searchVars, lookedUp,
                   idx, dlVars, race, opLog, held, call, gap>>

\* writeFile(failed_downloads.txt) returns or throws
FailedListWritten(ok) ==
    /\ pc = "writeFailed"
    /\ IF ~ok
       THEN /\ tasks' = CatchError(tasks)
            /\ pc' = "done"
       ELSE /\ tasks' = AfterListings(tasks).tasks
            /\ pc' = AfterListings(tasks).pc
    /\ UNCHANGED <<now, maxAge, enabledSources, reqVars, searchVars, lookedUp,
                   idx, dlVars, race, opLog, held, call, gap>>

\* createTaskZip returns or throws
ZipCreated(ok) ==
    /\ pc = "zip"
    /\ tasks' = IF ok THEN Complete(tasks) ELSE CatchError(tasks)
    /\ pc' = "done"
    /\ UNCHANGED <<now, maxAge, enabledSources, reqVars, searchVars, lookedUp,
                   idx, dlVars, race, opLog, held, call, gap>>

(***************************************************************************)
(* DOI lists (cleanDoi, parseDOIList, processDOIList, processDOISearch)     *)
(***************************************************************************)
NullDoi == <<"null">>

\* the part after the last 'doi.org/': cleaned.split('doi.org/').pop()
RECURSIVE AfterLastDoiOrg(_)
AfterLastDoiOrg(s) ==
    IF "doi.org/" \in Range(Tail(s)) THEN AfterLastDoiOrg(Tail(s))
    ELSE IF Head(s) = "doi.org/" THEN Tail(s)
    ELSE AfterLastDoiOrg(Tail(s))

CleanDoi(doiText) ==
    LET trimmed == TrimEnd(TrimStart(doiText))
        noAt == IF trimmed # <<>> /\ Head(trimmed) = "@" THEN Tail(trimmed) ELSE trimmed
        cleaned == IF "doi.org/" \in Range(noAt) THEN AfterLastDoiOrg(noAt) ELSE noAt
    IN IF cleaned # <<>> /\ Head(cleaned) = "10." THEN cleaned ELSE NullDoi

\* dois.map(cleanDoi).filter(doi => doi !== null)
CleanList(list) ==
    SelectSeq([k \in 1..Len(list) |-> CleanDoi(list[k])], LAMBDA d : d # NullDoi)

\* parseDOIList(content): trimmed non-empty lines, cleaned, valid ones kept
ParseDOIList(content) ==
    CleanList(SelectSeq([k \in 1..Len(content) |-> TrimEnd(TrimStart(content[k]))],
                        LAMBDA line : Len(line) > 0))

\* lines an uploaded .txt file can hold
FileLines ==
    {<<"10.", "a">>, <<" ", "@", "https://", "doi.org/", "10.", "b", " ">>, <<"x">>}

DoiFiles == SeqsUpTo(FileLines, MaxDois) \ {<<>>}

\* formData.get('cycles') absent: parseInt('3')
DefaultCycles == 3

\* the handler is suspended at await doiFile.text()
ReceiveUpload(content) ==
    /\ pc = "idle"
    /\ doiFile' = content
    /\ pc' = "readFile"
    /\ UNCHANGED <<tasks, now, maxAge, enabledSources, taskId, mode, cycles,
                   papers, downloadType, dois, searchVars, lookedUp, idx,
                   dlVars, race, opLog, held, call, gap>>

\* the file is read: 400 on no valid DOI, else createTask and processDOISearch
\* up to its first await
PostDoi(p, dt) ==
    /\ pc = "readFile"
    /\ LET doiList == ParseDOIList(doiFile)
           id == NewId
           cl == Clamp(DefaultCycles, 1, 20)
           pl == Clamp(p, 1, 250)
       IN IF Len(doiList) = 0
          THEN /\ pc' = "rejected"
               /\ UNCHANGED <<tasks, taskId, mode, cycles, papers, downloadType, dois>>
          ELSE /\ tasks' = CreateTask(tasks, id, pl, cl, now)
               /\ taskId' = id
               /\ cycles' = cl
               /\ papers' = pl
               /\ mode' = "doi"
               /\ downloadType' = dt
               /\ dois' = doiList
               /\ pc' = "ensureDir"
    /\ UNCHANGED <<doiFile, now, maxAge, enabledSources, searchVars, lookedUp,
                   idx, dlVars, race, opLog, held, call, gap>>

\* what lookupByDoi can return: the paper, the 'Title Not Found' record of a
\* DOI the provider does not know, or null on a provider error
LookupResults(doi) ==
    {Paper(doi, <<"A">>, TRUE), Paper(doi, <<"N", " ", "F">>, FALSE), Null}

\* Math.round(5 + (current / total) * 40)
LookupProgress(current, total) == MathRound(5 * total + current * 40, total)

\* mutant: papersFound keeps the lookup index of the last progress report
AfterLookups_NoFinalCount(store, all) ==
    IF Len(all) = 0
    THEN [tasks |-> FailTask(store, taskId, "No valid papers found from DOI list", now),
          pc |-> "done"]
    ELSE ProcessResultsStart(
            UpdateTask(store, taskId, [message |-> "Preparing to download..."], now))

\* mutant: the empty-collection test is missing
AfterLookups_NoEmptyCheck(store, all) ==
    ProcessResultsStart(
        UpdateTask(store, taskId,
            [papersFound |-> Len(all), message |-> "Preparing to download..."], now))

\* after processDOIList returned
AfterLookups(store, all) ==
    IF Len(all) = 0
    THEN [tasks |-> FailTask(store, taskId, "No valid papers found from DOI list", now),
          pc |-> "done"]
    ELSE ProcessResultsStart(
            UpdateTask(store, taskId,
                [papersFound |-> Len(all), message |-> "Preparing to download..."], now))

\* await ensureDir(taskDir) returns: startProcessing, processDOIList cleans
\* the list again and awaits the first lookup
StartDoi ==
    /\ pc = "ensureDir"
    /\ mode = "doi"
    /\ LET store == StartProcessing(tasks, taskId, "Processing DOI list...", now)
           validDois == CleanList(dois)
       IN IF Len(validDois) = 0
          THEN /\ tasks' = AfterLookups(store, <<>>).tasks
               /\ pc' = AfterLookups(store, <<>>).pc
               /\ UNCHANGED lookedUp
          ELSE /\ tasks' = store
               /\ pc' = "lookup"
               /\ lookedUp' = <<validDois[1]>>
    /\ idx' = 0
    /\ allPapers' = <<>>
    /\ UNCHANGED <<now, maxAge, enabledSources, reqVars, searchQueries,
                   broaderQueries, cycle, seenDois, executed, dlVars, race, opLog, held, call, gap>>

\* lookupByDoi returns for validDois[idx]: collect, report, delay or finish
LookupRecorded(paper) ==
    /\ LET validDois == CleanList(dois)
           total == Len(validDois)
           results == IF paper # Null THEN Append(allPapers, paper) ELSE allPapers
           store == UpdateTask(tasks, taskId,
                       [message |-> "Looking up DOI current/total...",
                        papersFound |-> idx + 1,
                        progress |-> LookupProgress(idx + 1, total)], now)
       IN /\ allPapers' = results
          /\ IF idx < total - 1
             THEN /\ tasks' = store
                  /\ pc' = "lookupDelay"
             ELSE /\ tasks' = AfterLookups(store, results).tasks
                  /\ pc' = AfterLookups(store, results).pc
    /\ UNCHANGED <<now, maxAge, enabledSources, reqVars, searchQueries,
                   broaderQueries, cycle, seenDois, executed, lookedUp, idx,
                   dlVars, race, opLog, held, call, gap>>

LookupReturn ==
    /\ pc = "lookup"
    /\ \E paper \in LookupResults(CleanList(dois)[idx + 1]) : LookupRecorded(paper)

\* the delay between two lookups is over: next lookup
LookupDelayDone ==
    /\ pc = "lookupDelay"
    /\ idx' = idx + 1
    /\ lookedUp' = Append(lookedUp, CleanList(dois)[idx + 2])
    /\ pc' = "lookup"
    /\ UNCHANGED <<tasks, now, maxAge, enabledSources, reqVars, searchVars,
                   dlVars, race, opLog, held, call, gap>>

(***************************************************************************)
(* Spec: one request through the paper-finder pipeline                      *)
(***************************************************************************)
NoRace == [phase |-> "none"]
NoCall == [phase |-> "none"]
NoGap == [pc |-> "idle"]
NoOp == [op |-> "none", id |-> 0, ret |-> 0, n |-> 0]

\* everything but the configured task TTL
InitRequest ==
    /\ tasks = <<>>
    /\ now = 0
    /\ enabledSources \in {GetEnabledSources(k) : k \in BOOLEAN}
    /\ pc = "idle"
    /\ taskId = 0
    /\ mode = "none"
    /\ cycles = 0
    /\ papers = 0
    /\ downloadType = "none"
    /\ searchQueries = <<>>
    /\ broaderQueries = <<>>
    /\ cycle = 0
    /\ allPapers = <<>>
    /\ seenDois = {}
    /\ executed = <<>>
    /\ doiFile = <<>>
    /\ dois = <<>>
    /\ lookedUp = <<>>
    /\ idx = 0
    /\ successful = <<>>
    /\ failed = <<>>
    /\ race = NoRace
    /\ opLog = NoOp
    /\ held = NoHeld
    /\ call = NoCall
    /\ gap = NoGap

Init ==
    /\ maxAge = MaxTTL
    /\ InitRequest

Next ==
    \/ \E c \in CycleChoices, p \in 1..MaxPapers, dt \in {"full", "metadata"} :
          PostTopic(c, p, dt)
    \/ \E content \in DoiFiles : ReceiveUpload(content)
    \/ \E p \in 1..MaxPapers, dt \in {"full", "metadata"} : PostDoi(p, dt)
    \/ StartTopic
    \/ StartDoi
    \/ LookupReturn
    \/ LookupDelayDone
    \/ \E r \in LLMResponses(cycles, 1) : QueriesReturn(r)
    \/ \E r \in ProviderResponses : SearchReturn(r)
    \/ \E r \in LLMResponses(cycles - cycle - 1, 2) : BroadenReturn(r)
    \/ CycleDelayDone
    \/ DownloadStart
    \/ ItemDone
    \/ DownloadDelayDone
    \/ \E ok \in BOOLEAN : MetadataWritten(ok)
    \/ \E ok \in BOOLEAN : FailedListWritten(ok)
    \/ \E ok \in BOOLEAN : ZipCreated(ok)

Spec == Init /\ [][Next]_vars

(***************************************************************************)
(* SpecRace: one downloadAndSavePaper call inside downloadPapers, with the  *)
(* adapters of the race settling one at a time in any order                 *)
(***************************************************************************)
Pending == [pending |-> TRUE]

AdapterSources == <<"unpaywall", "openalex-oa", "scihub", "libgen", "annas-archive">>

\* the enabledSources argument: any selection of the adapters' sources
SourceLists ==
    {SelectSeq(AdapterSources, LAMBDA src : src \in S) : S \in SUBSET Range(AdapterSources)}

racePipelineVars ==
    <<tasks, now, maxAge, pc, reqVars, searchVars, lookedUp, idx, opLog, held, call, gap>>

\* downloadAndSavePaper(paper, papersDir, enabled) is called: the attempts are
\* created and every one of them is launched
RaceCall(paper, enabled) ==
    /\ race.phase = "none"
    /\ enabledSources' = enabled
    /\ LET attempts == CreateDownloadAttempts(paper, enabled)
       IN race' = IF Len(attempts) = 0
                  THEN [phase |-> "returned", paper |-> paper, attempts |-> attempts,
                        outcomes |-> <<>>, results |-> <<>>, firstResolved |-> Null,
                        raced |-> Null, file |-> "none",
                        result |-> DownloadResult(FALSE, "undefined", "undefined",
                                                  "No download sources configured")]
                  ELSE [phase |-> "racing", paper |-> paper, attempts |-> attempts,
                        outcomes |-> [k \in 1..Len(attempts) |-> "pending"],
                        results |-> [k \in 1..Len(attempts) |-> Pending],
                        firstResolved |-> Null, raced |-> Null, file |-> "none",
                        result |-> Null]
    /\ UNCHANGED <<racePipelineVars, dlVars>>

\* the download() of attempt k settles: its wrapper promise resolves
AdapterSettles(k, outcome) ==
    /\ race.phase = "racing"
    /\ k \in 1..Len(race.attempts)
    /\ race.results[k] = Pending
    /\ LET r == AttemptResult(race.attempts[k], outcome)
       IN race' = [race EXCEPT !.outcomes[k] = outcome,
                               !.results[k] = r,
                               !.firstResolved =
                                   IF race.firstResolved = Null THEN r
                                   ELSE race.firstResolved]
    /\ UNCHANGED <<racePipelineVars, enabledSources, dlVars>>

\* mutant: the first attempt to resolve with a buffer wins (race on completion)
RaceResolves_FirstToResolve ==
    /\ race.phase = "racing"
    /\ \A k \in 1..Len(race.results) : race.results[k] # Pending
    /\ LET r == race.firstResolved
       IN race' = IF r = Null
                  THEN [race EXCEPT !.phase = "returned", !.raced = r,
                           !.result = DownloadResult(FALSE, "undefined", "undefined",
                                          "Failed to download from all sources")]
                  ELSE [race EXCEPT !.phase = "saving", !.raced = r]
    /\ UNCHANGED <<tasks, now, maxAge, pc, reqVars, searchVars, lookedUp, idx,
                   opLog, held, call, gap, enabledSources, dlVars>>

\* mutant: raceDownloads returns as soon as one attempt resolved with a buffer
RaceResolves_OnFirstSuccess ==
    /\ race.phase = "racing"
    /\ \/ \A k \in 1..Len(race.results) : race.results[k] # Pending
       \/ race.firstResolved # Null
    /\ LET r == race.firstResolved
       IN race' = IF r = Null
                  THEN [race EXCEPT !.phase = "returned", !.raced = r,
                           !.result = DownloadResult(FALSE, "undefined", "undefined",
                                          "Failed to download from all sources")]
                  ELSE [race EXCEPT !.phase = "saving", !.raced = r]
    /\ UNCHANGED <<tasks, now, maxAge, pc, reqVars, searchVars, lookedUp, idx,
                   opLog, held, call, gap, enabledSources, dlVars>>

\* mutant: the output file is opened before the race, whatever its outcome
RaceResolves_FileOpened ==
    /\ race.phase = "racing"
    /\ \A k \in 1..Len(race.results) : race.results[k] # Pending
    /\ LET r == FirstSuccess(race.results)
       IN race' = IF r = Null
                  THEN [race EXCEPT !.phase = "returned", !.raced = r,
                           !.file = "partial",
                           !.result = DownloadResult(FALSE, "undefined", "undefined",
                                          "Failed to download from all sources")]
                  ELSE [race EXCEPT !.phase = "saving", !.raced = r,
                                    !.file = "partial"]
    /\ UNCHANGED <<tasks, now, maxAge, pc, reqVars, searchVars, lookedUp, idx,
                   opLog, held, call, gap, enabledSources, dlVars>>

\* Promise.all resolves once every wrapper promise has; raceDownloads returns
\* and downloadAndSavePaper returns the failure or awaits the save
RaceResolves ==
    /\ race.phase = "racing"
    /\ \A k \in 1..Len(race.results) : race.results[k] # Pending
    /\ LET r == FirstSuccess(race.results)
       IN race' = IF r = Null
                  THEN [race EXCEPT !.phase = "returned", !.raced = r,
                           !.result = DownloadResult(FALSE, "undefined", "undefined",
                                          "Failed to download from all sources")]
                  ELSE [race EXCEPT !.phase = "saving", !.raced = r]
    /\ UNCHANGED <<racePipelineVars, enabledSources, dlVars>>

\* fsWriteFile returns or throws; a write that throws leaves no file (the
\* open failed) or a partial one (the open succeeded, the write did not)
SaveDone(writeOk) ==
    /\ race.phase = "saving"
    /\ \E left \in {"none", "partial"} :
          race' = [race EXCEPT !.phase = "returned",
                      !.file = IF writeOk THEN "complete" ELSE left,
                      !.result = IF writeOk
                                 THEN DownloadResult(TRUE, race.raced.source,
                                          CreateSafeFilename(race.paper.title) \o <<".pdf">>,
                                          "undefined")
                                 ELSE DownloadResult(FALSE, "undefined", "undefined",
                                                     "Failed to save file")]
    /\ UNCHANGED <<racePipelineVars, enabledSources, dlVars>>

\* downloadPapers records the result
RaceRecorded ==
    /\ race.phase = "returned"
    /\ LET rec == RecordItem(race.paper, race.result, enabledSources, successful, failed)
       IN /\ successful' = rec.successful
          /\ failed' = rec.failed
    /\ race' = [race EXCEPT !.phase = "recorded"]
    /\ UNCHANGED <<racePipelineVars, enabledSources>>

NextRace ==
    \/ \E paper \in PaperPool, enabled \in SourceLists : RaceCall(paper, enabled)
    \/ \E k \in 1..Len(AdapterSources), outcome \in Outcomes : AdapterSettles(k, outcome)
    \/ RaceResolves
    \/ \E writeOk \in BOOLEAN : SaveDone(writeOk)
    \/ RaceRecorded

SpecRace == Init /\ [][NextRace]_vars

(***************************************************************************)
(* SpecStore: the task store under its operations, the clock and the sweep  *)
(***************************************************************************)
storeOtherVars ==
    <<enabledSources, pc, reqVars, searchVars, lookedUp, idx, dlVars, race>>

\* env.TASK_TTL_MS is configuration: any positive TTL
InitStore ==
    /\ maxAge \in 1..MaxTTL
    /\ InitRequest

\* the operation just performed, its return value, and how many so far
Op(name, id, ret) == [op |-> name, id |-> id, ret |-> ret, n |-> opLog.n + 1]

StoreCreateTask(totalPapers, totalCycles) ==
    /\ opLog.n < MaxOps
    /\ Cardinality(DOMAIN tasks) < MaxTasks
    /\ tasks' = CreateTask(tasks, NewId, totalPapers, totalCycles, now)
    /\ opLog' = Op("createTask", NewId, NewId)
    /\ UNCHANGED <<now, maxAge, storeOtherVars, held, call, gap>>

\* a direct updateTask call, as the pipeline makes for messages and counts
StoreUpdateTask(id) ==
    /\ opLog.n < MaxOps
    /\ tasks' = UpdateTask(tasks, id,
                    [papersFound |-> 1, message |-> "Preparing to download..."], now)
    /\ opLog' = Op("updateTask", id, 0)
    /\ UNCHANGED <<now, maxAge, storeOtherVars, held, call, gap>>

StoreStartProcessing(id) ==
    /\ opLog.n < MaxOps
    /\ tasks' = StartProcessing(tasks, id, "Processing...", now)
    /\ opLog' = Op("startProcessing", id, 0)
    /\ UNCHANGED <<now, maxAge, storeOtherVars, held, call, gap>>

StoreUpdateCycleProgress(id, currentCycle, papersFound) ==
    /\ opLog.n < MaxOps
    /\ tasks' = UpdateCycleProgress(tasks, id, "Cycle c/n: Searching...",
                                    currentCycle, papersFound, now)
    /\ opLog' = Op("updateCycleProgress", id, 0)
    /\ UNCHANGED <<now, maxAge, storeOtherVars, held, call, gap>>

StoreUpdateDownloadProgress(id, papersDownloaded, total) ==
    /\ opLog.n < MaxOps
    /\ tasks' = UpdateDownloadProgress(tasks, id, papersDownloaded, total, now)
    /\ opLog' = Op("updateDownloadProgress", id, 0)
    /\ UNCHANGED <<now, maxAge, storeOtherVars, held, call, gap>>

StoreCompleteTask(id) ==
    /\ opLog.n < MaxOps
    /\ tasks' = CompleteTask(tasks, id, "/api/download/id/zip",
                             "/api/download/id/metadata", now)
    /\ opLog' = Op("completeTask", id, 0)
    /\ UNCHANGED <<now, maxAge, storeOtherVars, held, call, gap>>

StoreFailTask(id) ==
    /\ opLog.n < MaxOps
    /\ tasks' = FailTask(tasks, id, "Processing failed", now)
    /\ opLog' = Op("failTask", id, 0)
    /\ UNCHANGED <<now, maxAge, storeOtherVars, held, call, gap>>

\* the clock advances
Tick ==
    /\ now < MaxTime
    /\ now' = now + 1
    /\ opLog' = [Op("tick", 0, 0) EXCEPT !.n = opLog.n]
    /\ UNCHANGED <<tasks, maxAge, storeOtherVars, held, call, gap>>

\* the interval timer of startCleanup fires: cleanupOldTasks()
Sweep ==
    /\ opLog.n < MaxOps
    /\ tasks' = CleanupOldTasks(tasks, now, maxAge)
    /\ opLog' = Op("cleanupOldTasks", 0,
                   Cardinality(DOMAIN tasks) - Cardinality(DOMAIN tasks'))
    /\ held' = IF held.live /\ held.id \notin DOMAIN tasks'
               THEN [held EXCEPT !.live = FALSE, !.last = tasks[held.id]]
               ELSE held
    /\ UNCHANGED <<now, maxAge, storeOtherVars, call, gap>>

NextStore ==
    \/ StoreCreateTask(MaxPapers, MaxCycles)
    \/ \E id \in TaskIds : StoreUpdateTask(id)
    \/ \E id \in TaskIds : StoreStartProcessing(id)
    \/ \E id \in TaskIds, c \in {1, MaxCycles} : StoreUpdateCycleProgress(id, c, 1)
    \/ \E id \in TaskIds, d \in {1, MaxPapers} :
          StoreUpdateDownloadProgress(id, d, MaxPapers)
    \/ \E id \in TaskIds : StoreCompleteTask(id)
    \/ \E id \in TaskIds : StoreFailTask(id)
    \/ Tick
    \/ Sweep

SpecStore == InitStore /\ [][NextStore]_vars

(***************************************************************************)
(* SpecAlias: the task store with a caller that keeps what getTask returned *)
(***************************************************************************)
\* getTask(id): this.tasks.get(id), the task object itself or undefined
StoreGetTask(id) ==
    /\ opLog.n < MaxOps
    /\ held' = [id |-> id, seen |-> GetTask(tasks, id),
                live |-> id \in DOMAIN tasks, last |-> GetTask(tasks, id)]
    /\ opLog' = Op("getTask", id, 0)
    /\ UNCHANGED <<tasks, now, maxAge, storeOtherVars, call, gap>>

NextAlias ==
    \/ NextStore
    \/ \E id \in TaskIds : StoreGetTask(id)

SpecAlias == InitStore /\ [][NextAlias]_vars

(***************************************************************************)
(* SpecLive: the request pipeline next to the clock and the cleanup timer,  *)
(* with a pipeline whose every awaited call returns                         *)
(***************************************************************************)
\* time passes between two steps of the pipeline
ClockAdvances ==
    /\ now < MaxTime
    /\ now' = now + 1
    /\ UNCHANGED <<tasks, maxAge, storeOtherVars, opLog, held, call, gap>>

\* the interval timer of startCleanup fires while the pipeline runs
CleanupTimer ==
    /\ tasks' = CleanupOldTasks(tasks, now, maxAge)
    /\ UNCHANGED <<now, maxAge, storeOtherVars, opLog, held, call, gap>>

NextLive ==
    \/ Next
    \/ ClockAdvances
    \/ CleanupTimer

\* env.TASK_TTL_MS set to the shortest TTL
InitLive ==
    /\ maxAge = 1
    /\ InitRequest

\* every awaited call returns and the event loop runs the continuation
SpecLive == InitLive /\ [][NextLive]_vars /\ WF_vars(Next)

(***************************************************************************)
(* Properties                                                               *)
(***************************************************************************)
Task == tasks[taskId]
Terminal(status) == status \in {"complete", "error"}

\* C1: over the store updates of one task, from createTask until its status
\* is complete or error, every new progress value is at least the previous one.
C1_ProgressNeverDecreases ==
    [][\A id \in DOMAIN tasks \cap DOMAIN tasks' :
          ~Terminal(tasks[id].status) => tasks'[id].progress >= tasks[id].progress]_vars

\* position of a source in the launch order of createDownloadAttempts
LaunchOrder == <<"openalex-oa", "unpaywall", "scihub", "libgen", "annas-archive">>
LaunchPos(src) == CHOOSE k \in 1..Len(LaunchOrder) : LaunchOrder[k] = src
RaceReturned == race.phase \in {"saving", "returned", "recorded"} /\ Len(race.attempts) > 0
Producers == {k \in 1..Len(race.attempts) : race.outcomes[k] = "bytes"}

\* C2: whatever the order in which the adapters settle, raceDownloads returns
\* the result of the adapter that is earliest in launch order among those
\* that produced bytes, and the recorded winning source is that adapter.
C2_WinnerIsFirstInLaunchOrder ==
    /\ race.phase # "none" =>
          \A i, j \in 1..Len(race.attempts) :
             i < j => LaunchPos(race.attempts[i]) < LaunchPos(race.attempts[j])
    /\ (RaceReturned /\ Producers # {}) =>
          /\ \A k \in Producers : LaunchPos(race.raced.source) <= LaunchPos(race.attempts[k])
          /\ \E k \in Producers : race.raced.source = race.attempts[k]
          /\ (race.phase # "saving" /\ race.result.success) =>
                race.result.source = race.raced.source

\* a later adapter in launch order produced bytes first, an earlier one after it
C2_Witness ==
    /\ race.phase = "recorded"
    /\ race.result.success
    /\ race.firstResolved # Null
    /\ race.firstResolved.source # race.result.source
    /\ Cardinality(Producers) = 1 + Cardinality({k \in 1..Len(race.attempts) :
                                                    race.outcomes[k] = "throw"})

\* C3: when every launched adapter fails, throws or times out, the racer
\* returns a failure without winning source and the failure recorded for the
\* item lists exactly the enabled sources.
C3_AllFailGivesFullAttemptedList ==
    (RaceReturned /\ Producers = {}) =>
        /\ race.phase # "saving"
        /\ race.raced = Null
        /\ race.result.success = FALSE
        /\ race.result.source = "undefined"
        /\ race.result.filePath = "undefined"
        /\ race.phase = "recorded" =>
              /\ successful = <<>>
              /\ Len(failed) = 1
              /\ failed[1].paper = race.paper
              /\ failed[1].attemptedSources = enabledSources

C3_Witness ==
    /\ race.phase = "recorded"
    /\ Len(race.attempts) >= 3
    /\ Producers = {}
    /\ \E k \in 1..Len(race.attempts) : race.outcomes[k] = "throw"
    /\ \E k \in 1..Len(race.attempts) : race.outcomes[k] = "null"
    /\ Len(failed) = 1

\* C4: in a topic search the accumulated paper collection never holds two
\* entries with the same DOI, whatever the provider returns.
C4_NoDuplicateDoi ==
    mode = "topic" =>
        /\ \A i, j \in 1..Len(allPapers) : i # j => allPapers[i].doi # allPapers[j].doi
        /\ seenDois = {allPapers[k].doi : k \in 1..Len(allPapers)}

\* two papers collected over several iterations, the last of them run after
\* a broadening splice
C4_Witness ==
    /\ mode = "topic"
    /\ Len(broaderQueries) > 0
    /\ cycle > HalfwayCycle(cycles) + 1
    /\ pc \notin {"search", "broaden", "cycleDelay"}
    /\ Len(allPapers) = 2

\* C5: in every reachable state of every task, papersFound is at most the
\* target count totalPapers given to createTask.
C5_FoundAtMostTarget ==
    \A id \in DOMAIN tasks : tasks[id].papersFound <= tasks[id].totalPapers


\* the queries generateSearchQueries can return for the broadening call
BroaderBatches(n) == {GenerateSearchQueries(r, n) : r \in LLMResponses(n, 2)}
BelowEighty(all) == Len(all) * 10 < papers * 8

\* C6 as stated: with 10 cycles, broadening is decided once 5 queries have
\* been executed and replaces the remaining 5 queries, keeping the first 5.
C6_RemainingFiveReplaced ==
    [][(mode = "topic" /\ cycles = 10) =>
          /\ (pc = "search" /\ Len(executed) = 5 /\ BelowEighty(allPapers')) =>
                pc' = "broaden"
          /\ (pc = "broaden" /\ pc' # "broaden") =>
                /\ Len(broaderQueries') = 5
                /\ SubSeq(searchQueries', 1, 5) = SubSeq(searchQueries, 1, 5)
                /\ SubSeq(searchQueries', 6, 10) = broaderQueries']_vars

\* C6 amended: with 10 cycles, broadening is decided once the query at index 5
\* (the sixth) has been processed; if fewer than 80% of the target are found
\* then, exactly the remaining 4 queries are replaced by the 4 queries of a
\* fresh generateSearchQueries call and the 6 executed ones are unchanged; the
\* schedule changes at no other point.
C6_RemainingFourReplaced ==
    [][(mode = "topic" /\ cycles = 10) =>
          /\ (pc = "search" /\ Len(executed) = 6 /\ BelowEighty(allPapers')) =>
                pc' = "broaden"
          /\ (pc = "search" /\ pc' = "broaden") =>
                /\ Len(executed) = 6
                /\ BelowEighty(allPapers')
          /\ (pc = "broaden" /\ pc' # "broaden") =>
                /\ broaderQueries' \in BroaderBatches(4)
                /\ Len(broaderQueries') = 4
                /\ Len(searchQueries') = 10
                /\ SubSeq(searchQueries', 1, 6) = SubSeq(searchQueries, 1, 6)
                /\ SubSeq(searchQueries', 1, 6) = executed
                /\ SubSeq(searchQueries', 7, 10) = broaderQueries'
          /\ (pc \in {"search", "cycleDelay"}) => searchQueries' = searchQueries]_vars

\* all ten queries ran: the six original ones, then the four broader ones
C6_Witness ==
    /\ mode = "topic"
    /\ cycles = 10
    /\ Len(broaderQueries) = 4
    /\ Len(executed) = 10
    /\ SubSeq(executed, 7, 10) = broaderQueries
    /\ broaderQueries[1] # searchQueries[1]

\* C7: in a topic search, once the unique-paper count reaches the target
\* while the results of a query are processed, no later query is executed;
\* the count never passes the target; the task completes with papersFound
\* equal to the target (it ends in error only through the catch block of a
\* failed file write or zip) and a full download processes exactly target items.
C7_StopsAtTarget ==
    /\ [][(mode = "topic" /\ Len(allPapers') >= papers) => executed' = executed]_vars
    /\ [](mode = "topic" => Len(allPapers) <= papers)
    /\ []((mode = "topic" /\ pc = "done" /\ Len(allPapers) >= papers) =>
            /\ Task.status = "error" => Task.error = "Search failed: error"
            /\ Task.status \in {"complete", "error"}
            /\ Task.papersFound = papers
            /\ Task.currentCycle = Len(executed)
            /\ downloadType = "full" =>
                  /\ idx = papers
                  /\ Len(successful) + Len(failed) = papers)

\* ten cycles scheduled, target 2 reached on the first query: one cycle
\* consumed, papersFound = 2, two items downloaded, task complete
C7_Witness ==
    /\ mode = "topic"
    /\ pc = "done"
    /\ cycles = 10
    /\ papers = 2
    /\ Len(executed) = 1
    /\ Task.status = "complete"
    /\ Task.papersFound = 2
    /\ Task.currentCycle = 1
    /\ downloadType = "full"
    /\ Len(successful) + Len(failed) = 2


\* the entries of the uploaded file that start with "10." once cleaned
ValidEntries(content) ==
    SelectSeq([k \in 1..Len(content) |-> CleanDoi(content[k])],
              LAMBDA d : Head(d) = "10.")
LookupsOver ==
    pc \in {"dlEnsureDir", "race", "dlDelay", "writeMetadata", "writeFailed", "zip", "done"}

\* C8 as stated: when a DOI-list task has ended, papersFound equals the
\* number of valid entries of the list.
C8_FoundEqualsValidEntries ==
    (mode = "doi" /\ pc = "done") => Task.papersFound = Len(ValidEntries(doiFile))

\* C8 amended: only the entries that after cleaning start with "10." are
\* looked up, each once and in file order, and once the lookups are over with
\* at least one record returned, papersFound equals the number of lookups
\* that returned a record, which is the number of valid entries when no
\* lookup returned null.
C8_FoundEqualsReturnedRecords ==
    /\ [][pc = "readFile" =>
            /\ pc' = "rejected" <=> ValidEntries(doiFile) = <<>>
            /\ pc' = "ensureDir" => dois' = ValidEntries(doiFile)]_vars
    /\ [](mode = "doi" =>
            /\ dois = ValidEntries(doiFile)
            /\ Len(lookedUp) <= Len(dois)
            /\ lookedUp = SubSeq(dois, 1, Len(lookedUp))
            /\ pc \in {"lookup", "lookupDelay"} =>
                  /\ Len(lookedUp) = idx + 1
                  /\ Len(allPapers) <= Len(lookedUp)
            /\ LookupsOver =>
                  /\ lookedUp = dois
                  /\ Len(allPapers) <= Len(dois)
                  /\ \A k \in 1..Len(allPapers) : allPapers[k].doi \in Range(dois)
                  /\ Len(allPapers) > 0 => Task.papersFound = Len(allPapers))

\* a file of two valid entries, one of them changed by the cleaning; one
\* lookup returned null: the task completes with papersFound = 1
C8_Witness ==
    /\ mode = "doi"
    /\ pc = "done"
    /\ Task.status = "complete"
    /\ Len(doiFile) = 2
    /\ Len(dois) = 2
    /\ dois # doiFile
    /\ Len(lookedUp) = 2
    /\ Task.papersFound = 1

DownloadPhase == pc \in {"dlEnsureDir", "race", "dlDelay"}
CatchMessages == {"Search failed: error", "DOI processing failed: error"}

\* C9: an item for which no adapter succeeds is put on the failed list with
\* all enabled sources, the download goes on to the remaining items so that
\* every item ends on one of the two lists, no download step changes the
\* task's status, and the task ends complete (in error only through the
\* catch block of a failed file write or zip), also when every item failed.
C9_DownloadFailuresNotFatal ==
    /\ [](\A k \in 1..Len(failed) :
            /\ failed[k].paper \in Range(allPapers)
            /\ failed[k].error # "No DOI available" =>
                  failed[k].attemptedSources = enabledSources)
    /\ [](downloadType = "full" =>
            /\ pc = "race" => Len(successful) + Len(failed) = idx
            /\ pc = "dlDelay" => Len(successful) + Len(failed) = idx + 1
            /\ (pc \in {"writeMetadata", "writeFailed", "zip"}
                \/ (pc = "done" /\ Len(allPapers) > 0)) =>
                  Len(successful) + Len(failed) = Len(allPapers))
    /\ [][DownloadPhase =>
            /\ Task'.status = "processing"
            /\ pc' \in {"race", "dlDelay", "writeMetadata"}
            /\ Len(failed') >= Len(failed)]_vars
    /\ []((pc = "done" /\ downloadType = "full" /\ Len(allPapers) > 0) =>
            \/ Task.status = "complete" /\ Task.progress = 100
            \/ Task.status = "error" /\ Task.error \in CatchMessages)

\* both items of a full download failed on every source; the task is complete
C9_Witness ==
    /\ pc = "done"
    /\ downloadType = "full"
    /\ Len(allPapers) = 2
    /\ Len(failed) = 2
    /\ \A k \in 1..2 : failed[k].error = "Failed to download from all sources"
    /\ Task.status = "complete"

\* C10: a sweep removes every task whose last update is older than the max
\* age, so that getTask no longer finds it, and leaves every other task in
\* the store with its record unchanged; it adds no task.
C10_SweepRemovesOnlyOld ==
    [][(opLog'.op = "cleanupOldTasks" /\ opLog'.n # opLog.n) =>
          /\ DOMAIN tasks' \subseteq DOMAIN tasks
          /\ \A id \in DOMAIN tasks :
                IF now - tasks[id].lastUpdate > maxAge
                THEN GetTask(tasks', id) = [undefined |-> TRUE]
                ELSE /\ id \in DOMAIN tasks'
                     /\ GetTask(tasks', id) = tasks[id]
          /\ opLog'.ret = Cardinality({id \in DOMAIN tasks :
                                          now - tasks[id].lastUpdate > maxAge})]_vars

\* the sweep just removed one task and kept one whose age is exactly max age
C10_Witness ==
    /\ opLog.op = "cleanupOldTasks"
    /\ opLog.ret = 1
    /\ \E id \in DOMAIN tasks : now - tasks[id].lastUpdate = maxAge

StatusRank(status) ==
    CASE status = "pending" -> 0
      [] status = "processing" -> 1
      [] status \in {"complete", "error"} -> 2

\* C11: in every step of the pipeline a task's status stays or moves forward
\* along pending -> processing -> complete or error, and a status of complete
\* or error is never changed again.
C11_StatusOnlyMovesForward ==
    [][\A id \in DOMAIN tasks \cap DOMAIN tasks' :
          /\ StatusRank(tasks'[id].status) >= StatusRank(tasks[id].status)
          /\ Terminal(tasks[id].status) => tasks'[id].status = tasks[id].status]_vars

\* a full download ran through pending, processing and complete
C11_Witness ==
    /\ pc = "done"
    /\ downloadType = "full"
    /\ Len(successful) > 0
    /\ Task.status = "complete"

UpdateOps ==
    {"updateTask", "startProcessing", "updateCycleProgress",
     "updateDownloadProgress", "completeTask", "failTask"}
OpDone == opLog'.n # opLog.n

\* C12: updateTask, startProcessing, updateCycleProgress,
\* updateDownloadProgress, completeTask and failTask called with an id that
\* is absent from the store leave the store unchanged: no task is created
\* and no other task is touched.
C12_AbsentIdIsNoOp ==
    [][(OpDone /\ opLog'.op \in UpdateOps /\ opLog'.id \notin DOMAIN tasks) =>
          /\ tasks' = tasks
          /\ GetTask(tasks', opLog'.id) = [undefined |-> TRUE]]_vars

\* task 1 was evicted by a sweep, task 2 survived, then task 1 was failed
C12_Witness ==
    /\ opLog.op = "failTask"
    /\ opLog.id = 1
    /\ DOMAIN tasks = {2}

\* C13: the step in which completeTask acts on a task sets its status to
\* complete and its progress to 100, and every task of the pipeline with
\* status complete has progress exactly 100.
C13_CompleteMeansHundred ==
    /\ [][\A id \in DOMAIN tasks \cap DOMAIN tasks' :
            (tasks[id].status # "complete" /\ tasks'[id].status = "complete") =>
                /\ tasks'[id].progress = 100
                /\ tasks'[id].message = "Complete"
                /\ tasks'[id].metadataUrl # "undefined"]_vars
    /\ [](\A id \in DOMAIN tasks :
            tasks[id].status = "complete" => tasks[id].progress = 100)

\* a metadata-only task completed: its progress went from 95 to 100
C13_Witness ==
    /\ pc = "done"
    /\ downloadType = "metadata"
    /\ Task.status = "complete"
    /\ Task.progress = 100

Counters ==
    {"progress", "papersFound", "papersDownloaded", "currentCycle",
     "totalCycles", "totalPapers"}

\* C14: failTask on an existing task sets its status to error and stores the
\* message as error and as message, and leaves progress, papersFound,
\* papersDownloaded, currentCycle, totalCycles and totalPapers as they were;
\* no other task is touched.
C14_FailKeepsCounters ==
    [][(OpDone /\ opLog'.op = "failTask" /\ opLog'.id \in DOMAIN tasks) =>
          /\ DOMAIN tasks' = DOMAIN tasks
          /\ tasks'[opLog'.id].status = "error"
          /\ tasks'[opLog'.id].error = "Processing failed"
          /\ tasks'[opLog'.id].message = "Processing failed"
          /\ \A f \in Counters : tasks'[opLog'.id][f] = tasks[opLog'.id][f]
          /\ \A id \in DOMAIN tasks \ {opLog'.id} : tasks'[id] = tasks[id]]_vars

\* a task with progress and a paper count was failed
C14_Witness ==
    /\ opLog.op = "failTask"
    /\ opLog.id \in DOMAIN tasks
    /\ tasks[opLog.id].status = "error"
    /\ tasks[opLog.id].progress > 5
    /\ tasks[opLog.id].papersFound = 1
    /\ tasks[opLog.id].currentCycle > 0

NoPapersMessages == {"No papers found", "No valid papers found from DOI list"}
ResultsPhase ==
    pc \in {"dlEnsureDir", "race", "dlDelay", "writeMetadata", "writeFailed", "zip"}

\* C15: a task whose collection is empty after all queries, or after all
\* DOI lookups, ends in status error with the no-papers message of its mode;
\* processResults is never entered with an empty collection, nothing is
\* downloaded for it, and a complete task has a non-empty collection.
C15_EmptyCollectionFails ==
    /\ [](ResultsPhase => Len(allPapers) > 0)
    /\ []((pc = "done" /\ Len(allPapers) = 0) =>
            /\ Task.status = "error"
            /\ Task.error = IF mode = "topic" THEN "No papers found"
                            ELSE "No valid papers found from DOI list"
            /\ Task.message = Task.error
            /\ Task.papersDownloaded = 0
            /\ successful = <<>> /\ failed = <<>>
            /\ mode = "topic" => executed = searchQueries /\ Len(executed) = cycles
            /\ mode = "doi" => lookedUp = dois)
    /\ [](\A id \in DOMAIN tasks :
            /\ tasks[id].status = "complete" => Len(allPapers) > 0
            /\ tasks[id].error \in NoPapersMessages => Len(allPapers) = 0)
    /\ [][(Len(allPapers) = 0 /\ pc = "done") => pc' = "done"]_vars

\* ten queries, four of them broader ones, all without a paper
C15_Witness ==
    /\ pc = "done"
    /\ mode = "topic"
    /\ cycles = 10
    /\ Len(broaderQueries) = 4
    /\ Len(allPapers) = 0
    /\ Task.status = "error"

\* the responses of the LLM call that give no usable line
NoUsableLine(responses) ==
    {r \in responses : ~r.ok \/ \A k \in 1..Len(r.lines) : r.lines[k].kind = "text"}
Fallbacks(n) == [k \in 1..n |-> FallbackQuery]

\* C16: whatever the LLM call does, generateSearchQueries returns exactly the
\* requested number of queries, for the first schedule and for the broader
\* batch, and the task goes on processing (it fails after the broader batch
\* only when the schedule is exhausted without a paper); when the call fails
\* or gives no usable line, every returned query is the fallback query of
\* the topic.
C16_AlwaysRequestedLength ==
    [][/\ (pc = "genQueries" /\ pc' # "genQueries") =>
             /\ Len(searchQueries') = cycles
             /\ pc' = "search"
             /\ Task'.status = "processing"
       /\ (pc = "broaden" /\ pc' # "broaden") =>
             /\ Len(broaderQueries') = cycles - cycle - 1
             /\ Len(searchQueries') = cycles
             /\ \/ Task'.status = "processing"
                \/ /\ cycle + 1 = cycles
                   /\ Len(allPapers) = 0
                   /\ Task'.error = "No papers found"
       /\ (\E r \in NoUsableLine(LLMResponses(cycles, 1)) : QueriesReturn(r)) =>
             searchQueries' = Fallbacks(cycles)
       /\ (\E r \in NoUsableLine(LLMResponses(cycles - cycle - 1, 2)) : BroadenReturn(r)) =>
             broaderQueries' = Fallbacks(cycles - cycle - 1)]_vars

\* both LLM calls of a ten-cycle search gave nothing usable
C16_Witness ==
    /\ mode = "topic"
    /\ cycles = 10
    /\ searchQueries = Fallbacks(10)
    /\ broaderQueries = Fallbacks(4)
    /\ pc = "search"
    /\ Len(executed) = 7

ProviderErrors == {r \in ProviderResponses : r.kind # "ok"}

\* C17: a provider error during one query (non-ok status or exception) is
\* the same step as that query returning zero papers: the collection is
\* kept, the loop goes on to the delay before the next scheduled query (or to
\* broadening), the task stays processing, and it fails only when the
\* schedule is exhausted with an empty collection.
C17_ProviderErrorIsZeroYield ==
    [][\A resp \in ProviderErrors : SearchReturn(resp) =>
          /\ SearchReturn([kind |-> "ok", works |-> <<>>])
          /\ allPapers' = allPapers
          /\ seenDois' = seenDois
          /\ cycle < Len(searchQueries) - 1 =>
                /\ pc' \in {"cycleDelay", "broaden"}
                /\ Task'.status = "processing"
          /\ Task'.status = "error" =>
                /\ Len(allPapers) = 0
                /\ Task'.error = "No papers found"]_vars

\* the first query gave a paper, the second none: the loop waits for the third
C17_Witness ==
    /\ mode = "topic"
    /\ cycles = 10
    /\ pc = "cycleDelay"
    /\ cycle = 1
    /\ Len(executed) = 2
    /\ Len(allPapers) = 1
    /\ Task.status = "processing"

\* C18: when a step of the orchestration throws (writing details.txt or
\* failed_downloads.txt, creating the zip) the task ends in status error with
\* the message of the catch block, the pipeline stops, and the task is
\* never complete afterwards, whatever had been downloaded.
C18_ThrowEndsInError ==
    /\ [][(MetadataWritten(FALSE) \/ FailedListWritten(FALSE) \/ ZipCreated(FALSE)) =>
            /\ Task'.status = "error"
            /\ Task'.error \in CatchMessages
            /\ Task'.message = Task'.error
            /\ pc' = "done"]_vars
    /\ [][\A id \in DOMAIN tasks \cap DOMAIN tasks' :
            tasks[id].status = "error" => tasks'[id].status = "error"]_vars
    /\ [](pc = "done" => Terminal(Task.status))

\* the zip of a full download with a saved paper failed: error at progress 98
C18_Witness ==
    /\ pc = "done"
    /\ downloadType = "full"
    /\ Len(successful) > 0
    /\ Task.status = "error"
    /\ Task.error \in CatchMessages
    /\ Task.progress = 98

\* C19: what getTask returned stays as it was when it was returned,
\* whatever updateTask, completeTask or failTask do to the task afterwards.
C19_ReturnedValueIsSnapshot ==
    held.id # 0 => HeldValue = held.seen

\* C20: the pipeline of an accepted task never ends without getTask showing
\* the task with status complete or error (from then on nothing writes to
\* the task, so a task not seen complete or error by then never is).
C20_PipelineEndsInTerminalStatus ==
    [][(taskId # 0 /\ pc # "done" /\ pc' = "done")
          => (taskId \in DOMAIN tasks' /\ Terminal(tasks'[taskId].status))]_vars

\* C21: the progress of every task in the store is an integer from 0 to 100,
\* in every state of the pipeline.
C21_ProgressInRange ==
    \A id \in DOMAIN tasks : tasks[id].progress \in 0..100

\* one of two papers is downloaded: progress strictly between 90 and 100
C21_Witness ==
    /\ taskId \in DOMAIN tasks
    /\ Task.papersDownloaded = 1
    /\ Task.message = "Downloading papers (n/total)..."
    /\ Task.progress = 95

\* C22: raceDownloads returns only in a state where every launched adapter
\* has settled (bytes, null or exception), also when an adapter earlier in
\* launch order has already produced bytes; once it has returned, no launched
\* adapter is still running.
C22_ReturnsAfterAllSettled ==
    /\ [][(race.phase = "racing" /\ race'.phase # "racing") =>
             /\ \A k \in 1..Len(race.attempts) : race.outcomes[k] \in Outcomes
             /\ race'.outcomes = race.outcomes]_vars
    /\ [](RaceReturned =>
             \A k \in 1..Len(race.attempts) : race.outcomes[k] \in Outcomes)

\* the first adapter in launch order has produced bytes, a later one is still
\* running, and raceDownloads has not returned
C22_Witness ==
    /\ race.phase = "racing"
    /\ Len(race.attempts) >= 2
    /\ race.outcomes[1] = "bytes"
    /\ race.outcomes[Len(race.attempts)] = "pending"

C24_NoFileWithoutWinner ==
    /\ [][(race.phase # "none" /\ race'.phase # "none"
           /\ race'.file # race.file) =>
             /\ race.phase = "saving"
             /\ race.raced # Null
             /\ \E k \in Producers : race.raced.source = race.attempts[k]]_vars
    /\ [](race.phase \in {"racing", "saving"} => race.file = "none")
    /\ []((race.phase \in {"returned", "recorded"} /\ race.raced = Null) =>
             /\ race.file = "none"
             /\ race.result.success = FALSE
             /\ race.result.filePath = "undefined"
             /\ successful = <<>>)

\* a race in which every launched adapter failed has been recorded
C24_Witness ==
    /\ race.phase = "recorded"
    /\ Len(race.attempts) >= 2
    /\ race.raced = Null
    /\ race.file = "none"
    /\ Len(failed) = 1
    /\ successful = <<>>

\* C25: for every way the adapters of an item can settle, an adapter that
\* throws (timeout, abort, any exception) changes nothing compared with the
\* same adapter returning null: when another adapter produced bytes the race
\* still returns the success of a producing adapter; and the step that
\* records the item leaves the task processing, never error, and does not
\* end the pipeline.
C25_AdapterErrorIsAbsent ==
    /\ [](pc = "race" =>
            LET attempts == CreateDownloadAttempts(allPapers[idx + 1], enabledSources)
            IN \A outcomes \in [1..Len(attempts) -> Outcomes] :
                  LET asAbsent == [k \in 1..Len(attempts) |->
                                      IF outcomes[k] = "throw" THEN "null"
                                      ELSE outcomes[k]]
                      raced == RaceDownloads(attempts, outcomes)
                  IN /\ raced = RaceDownloads(attempts, asAbsent)
                     /\ (\E k \in 1..Len(attempts) : outcomes[k] = "bytes") =>
                           /\ raced # Null
                           /\ \E k \in 1..Len(attempts) :
                                 /\ outcomes[k] = "bytes"
                                 /\ raced.source = attempts[k])
    /\ [][pc = "race" =>
            /\ Task'.status = Task.status
            /\ Task'.status = "processing"
            /\ Task'.error = "undefined"
            /\ pc' # "done"
            /\ Len(successful') \in {Len(successful), Len(successful) + 1}]_vars

\* the first of two items went through a race of at least four adapters and
\* was saved; the task is still processing
C25_Witness ==
    /\ pc = "dlDelay"
    /\ idx = 0
    /\ Len(CreateDownloadAttempts(allPapers[1], enabledSources)) >= 4
    /\ Len(successful) = 1
    /\ failed = <<>>
    /\ Task.status = "processing"
    /\ Task.papersDownloaded = 1

(***************************************************************************)
(* SpecAdapter: one adapter's download() call against its remote server     *)
(***************************************************************************)
\* what a server puts in the content-type header, and what the body holds:
\* bytes that start with %PDF, a page with a download link, or neither
ContentTypes == {"pdf", "octet-stream", "html", "other"}
Bodies == {"pdf", "link", "other"}
Responses == [ok : BOOLEAN, ct : ContentTypes, body : Bodies]
NoResp == [ok |-> FALSE, ct |-> "none", body |-> "none"]

\* the requests an adapter makes in order: a "page" is fetched and read for a
\* link or URL, a "file" is fetched and validated; timed tells whether the
\* fetch is given an AbortController with a setTimeout
AdapterStages(adapter) ==
    CASE adapter = "openalex-oa" -> <<[kind |-> "file", timed |-> TRUE]>>
      [] adapter = "unpaywall" -> <<[kind |-> "page", timed |-> TRUE],
                                    [kind |-> "file", timed |-> TRUE]>>
      [] adapter = "scihub" -> <<[kind |-> "page", timed |-> TRUE],
                                 [kind |-> "file", timed |-> TRUE]>>
      [] adapter = "libgen" -> <<[kind |-> "page", timed |-> TRUE],
                                 [kind |-> "file", timed |-> TRUE]>>
      [] adapter = "annas-archive" -> <<[kind |-> "page", timed |-> FALSE],
                                [kind |-> "page", timed |-> FALSE],
                                [kind |-> "file", timed |-> TRUE]>>

\* how many alternatives the adapter walks through before it gives up:
\* SCIHUB_DOMAINS, LIBGEN_MIRRORS and their links, the links of the md5 page
Alternatives(adapter) ==
    IF adapter \in {"scihub", "libgen", "annas-archive"} THEN MaxTries ELSE 1

\* where the next alternative starts: the next domain or mirror is searched
\* again, the next link of downloadFromAnnas is downloaded directly
RestartStage(adapter) == IF adapter = "annas-archive" THEN 3 ELSE 1

\* tryDownloadFromUrl and tryDownload call themselves on the link of an HTML page
Follows(adapter) == adapter \in {"libgen", "annas-archive"}

\* whether the response's body is read at all once the headers are in
ReadsBody(adapter, ct) ==
    Follows(adapter) => ct \in {"pdf", "octet-stream", "html"}

\* the adapter's own test of a downloaded response
Accepts(adapter, ct, body) ==
    CASE adapter = "openalex-oa" -> body = "pdf"
      [] adapter = "unpaywall" -> ct = "pdf" \/ body = "pdf"
      [] adapter = "scihub" -> ct = "pdf" \/ body = "pdf"
      [] adapter = "libgen" -> ct \in {"pdf", "octet-stream"} /\ body = "pdf"
      [] adapter = "annas-archive" -> ct \in {"pdf", "octet-stream"} /\ body = "pdf"

\* fetch(url, {signal}): a new request is on the wire, its timer armed if any
Fetch(c, stage, hops) ==
    [c EXCEPT !.stage = stage, !.net = "headers",
              !.timer = AdapterStages(c.adapter)[stage].timed,
              !.req = 1 - c.req, !.hops = hops, !.resp = NoResp]

\* return buffer / return null
Return(c, result) ==
    [c EXCEPT !.phase = "returned", !.net = "none", !.timer = FALSE, !.result = result]

\* the current request came to nothing: the loop goes on to the next domain,
\* mirror or link, and after the last one the adapter returns null
StageFails(c) ==
    IF c.tries > 0 /\ ~(c.adapter = "annas-archive" /\ c.stage < 3)
    THEN Fetch([c EXCEPT !.tries = c.tries - 1], RestartStage(c.adapter), 0)
    ELSE Return(c, "null")

\* the adapter judged a downloaded response
Judged(c, accepted) == [c EXCEPT !.judged = c.resp, !.accepted = accepted]

\* attempt.download() is called and issues its first request
AdapterCall(adapter) ==
    /\ call = NoCall
    /\ gap = NoGap
    /\ call' = Fetch([adapter |-> adapter, phase |-> "running", stage |-> 1,
                      tries |-> Alternatives(adapter) - 1, net |-> "none",
                      timer |-> FALSE, req |-> 0, hops |-> 0, resp |-> NoResp,
                      judged |-> NoResp, accepted |-> FALSE, result |-> "pending"],
                     1, 0)
    /\ UNCHANGED <<storeVars, storeOtherVars, opLog, held, gap>>

\* await fetch(...) resolves with the response's headers; clearTimeout(timeout)
\* follows at once, and the body is read next unless the headers rule it out
ServerAnswers(resp) ==
    /\ call.phase = "running"
    /\ call.net = "headers"
    /\ LET c == [call EXCEPT !.timer = FALSE, !.resp = resp]
           stage == AdapterStages(call.adapter)[call.stage]
       IN call' = IF ~resp.ok THEN StageFails(c)
                  ELSE IF stage.kind = "page" \/ ReadsBody(call.adapter, resp.ct)
                       THEN [c EXCEPT !.net = "body"]
                       ELSE StageFails(Judged(c, FALSE))
    /\ UNCHANGED <<storeVars, storeOtherVars, opLog, held, gap>>

\* await response.text() / json() / arrayBuffer() resolves
ServerSendsBody ==
    /\ call.phase = "running"
    /\ call.net = "body"
    /\ LET stage == AdapterStages(call.adapter)[call.stage]
           ct == call.resp.ct
           body == call.resp.body
       IN call' = IF stage.kind = "page"
                  THEN IF body = "link" THEN Fetch(call, call.stage + 1, 0)
                       ELSE StageFails(call)
                  ELSE IF Follows(call.adapter) /\ ct = "html"
                       THEN IF body = "link"
                            THEN Fetch(call, call.stage,
                                       IF call.hops < MaxHops THEN call.hops + 1 ELSE MaxHops)
                            ELSE StageFails(Judged(call, FALSE))
                       ELSE IF Accepts(call.adapter, ct, body)
                            THEN Return(Judged(call, TRUE), "bytes")
                            ELSE StageFails(Judged(call, FALSE))
    /\ UNCHANGED <<storeVars, storeOtherVars, opLog, held, gap>>

\* setTimeout(() => controller.abort(), ms) fires: the fetch rejects and the
\* catch block turns it into null
TimerFires ==
    /\ call.phase = "running"
    /\ call.net = "headers"
    /\ call.timer
    /\ call' = StageFails([call EXCEPT !.timer = FALSE])
    /\ UNCHANGED <<storeVars, storeOtherVars, opLog, held, gap>>

\* the request numbered r (modulo 2) is ended below the adapter: a connection
\* error, or a limit of the runtime's own; the await rejects, the catch returns null
RequestFails(r) ==
    /\ call.phase = "running"
    /\ call.net \in {"headers", "body"}
    /\ call.req = r
    /\ call' = StageFails([call EXCEPT !.timer = FALSE])
    /\ UNCHANGED <<storeVars, storeOtherVars, opLog, held, gap>>

NextAdapter ==
    \/ \E k \in 1..Len(AdapterSources) : AdapterCall(AdapterSources[k])
    \/ \E resp \in Responses : ServerAnswers(resp)
    \/ ServerSendsBody
    \/ TimerFires
    \/ \E r \in {0, 1} : RequestFails(r)

\* timers fire and every single request is eventually ended if it stays open;
\* nothing obliges a server to answer
SpecAdapter ==
    /\ Init
    /\ [][NextAdapter]_vars
    /\ WF_vars(TimerFires)
    /\ \A r \in {0, 1} : WF_vars(RequestFails(r))

\* C26: every adapter call that is launched returns, with bytes or with null,
\* whatever its server does: each request is cut off and chains of requests end
C26_AdapterCallReturns ==
    (call.phase = "running") ~> (call.phase = "returned")

\* C27: whichever adapter judged a downloaded response, it accepted it exactly
\* when the content-type header indicates PDF or the body starts with %PDF
C27_AcceptedIffPdfTypeOrMagic ==
    (call.phase # "none" /\ call.judged # NoResp)
        => (call.accepted <=> (call.judged.ct = "pdf" \/ call.judged.body = "pdf"))

\* C28: the adapters launched for an item are the enabled sources, each once,
\* with openalex-oa left out when the item has no open-access URL; every one
\* of them is launched and no adapter of another source ever settles
C28_LaunchedAreTheEnabled ==
    race.phase # "none" =>
        /\ Range(race.attempts) =
              {s \in Range(enabledSources) : s = "openalex-oa" => race.paper.openAccessUrl}
        /\ Cardinality(Range(race.attempts)) = Len(race.attempts)
        /\ DOMAIN race.outcomes = 1..Len(race.attempts)

C28_Witness ==
    /\ race.phase = "racing"
    /\ "openalex-oa" \in Range(enabledSources)
    /\ ~race.paper.openAccessUrl
    /\ "libgen" \notin Range(enabledSources)
    /\ Len(race.attempts) = 2
    /\ \A k \in 1..2 : race.outcomes[k] \in Outcomes

\* C29: downloadPapers has one item's race in flight at a time. While the race
\* of the item at index idx is awaited, every earlier item is on one of the
\* two result lists and the last progress report was the one of the item just
\* before; the step that ends a race records its result and reports its
\* progress, and never starts another race; the next race is started by a
\* later step, for an item further down the list, with only items without
\* DOI passed over in between.
C29_OneRaceAtATime ==
    /\ [](pc = "race" =>
            /\ idx < Len(allPapers)
            /\ allPapers[idx + 1].doi # <<>>
            /\ Len(successful) + Len(failed) = idx
            /\ Task.papersDownloaded = idx)
    /\ [][pc = "race" =>
            /\ pc' # "race"
            /\ Len(successful') + Len(failed') = idx + 1
            /\ Task'.papersDownloaded = idx + 1]_vars
    /\ [][pc' = "race" =>
            /\ pc \in {"dlEnsureDir", "dlDelay"}
            /\ allPapers' = allPapers
            /\ LET from == IF pc = "dlDelay" THEN idx + 1 ELSE 0
               IN /\ idx' >= from
                  /\ \A k \in (from + 1)..idx' : allPapers[k].doi = <<>>]_vars

C29_Witness ==
    /\ pc = "race"
    /\ idx = 1
    /\ Len(allPapers) = 2
    /\ Len(successful) = 1
    /\ Task.papersDownloaded = 1

\* C30: a delay of the topic search loop is always followed by an executed
\* query: while the delay runs, the next turn of the loop will execute the
\* next query of the schedule and not leave the loop
C30_DelayOnlyBetweenQueries ==
    pc = "cycleDelay" =>
        LoopHead(tasks, cycle + 1, allPapers, searchQueries).pc = "search"

\* C32: when a full-download task completes, papersDownloaded is the number
\* of papers downloaded and saved, the length of the successful list
C32_DownloadedCountsSaved ==
    (pc = "done" /\ downloadType = "full" /\ taskId \in DOMAIN tasks
     /\ Task.status = "complete")
        => Task.papersDownloaded = Len(successful)

\* C33: every FailedDownload lists exactly the sources whose adapters were
\* launched for its paper: none for a paper without DOI, else the attempts
\* createDownloadAttempts made for it
C33_AttemptedAreTheLaunched ==
    \A k \in 1..Len(failed) :
        Range(failed[k].attemptedSources) =
            IF failed[k].error = "No DOI available" THEN {}
            ELSE Range(CreateDownloadAttempts(failed[k].paper, enabledSources))

\* C36: no step removes a task whose status is pending or processing
C36_SweepSparesUnfinished ==
    [][\A id \in DOMAIN tasks :
          ~Terminal(tasks[id].status) => id \in DOMAIN tasks']_vars

\* C37: progress is 100 only when the status is complete
C37_HundredMeansComplete ==
    \A id \in DOMAIN tasks :
        tasks[id].progress = 100 => tasks[id].status = "complete"

\* C40: papersFound of a task never decreases
C40_FoundNeverDecreases ==
    [][\A id \in DOMAIN tasks \cap DOMAIN tasks' :
          tasks'[id].papersFound >= tasks[id].papersFound]_vars

(***************************************************************************)
(* SpecLongList: the pipeline on a DOI list as long as the default target   *)
(* of 20 papers, every line the same DOI (a DOI list is not deduplicated),   *)
(* with a provider that knows the DOI or fails and file writes that succeed  *)
(***************************************************************************)
LongFile == [k \in 1..MaxLines |-> <<"10.", "a">>]

\* lookupByDoi returns the paper of the DOI, or null on a provider error
LookupFound ==
    /\ pc = "lookup"
    /\ \E paper \in {Paper(CleanList(dois)[idx + 1], <<"A">>, TRUE), Null} :
          LookupRecorded(paper)

\* downloadAndSavePaper returns: some adapter produced the bytes and the file
\* was written, or every adapter came back with null
ItemSaved ==
    /\ pc = "race"
    /\ \E outcome \in {"bytes", "null"} :
          LET paper == allPapers[idx + 1]
              attempts == CreateDownloadAttempts(paper, enabledSources)
          IN ItemRecorded(DownloadAndSavePaper(paper, enabledSources,
                             [k \in 1..Len(attempts) |-> outcome], TRUE))

NextLongList ==
    \/ ReceiveUpload(LongFile)
    \/ \E dt \in {"full", "metadata"} : PostDoi(MaxLines, dt)
    \/ StartDoi
    \/ LookupFound
    \/ LookupDelayDone
    \/ DownloadStart
    \/ ItemSaved
    \/ DownloadDelayDone
    \/ \E ok \in BOOLEAN : MetadataWritten(ok)
    \/ \E ok \in BOOLEAN : FailedListWritten(ok)
    \/ \E ok \in BOOLEAN : ZipCreated(ok)

SpecLongList == Init /\ [][NextLongList]_vars

\* C35: in a topic search with cycle count n the schedule has length n from
\* the moment it is generated, broadening included; the loop index only moves
\* forward, every executed query belongs to a new index below n, so at most n
\* queries are executed and the loop ends
C35_AtMostRequestedQueries ==
    /\ [](mode = "topic" =>
            /\ Len(executed) <= cycles
            /\ pc \in {"search", "broaden", "cycleDelay"} =>
                  /\ Len(searchQueries) = cycles
                  /\ cycle < cycles
                  /\ Len(executed) = cycle + 1)
    /\ [][(mode = "topic" /\ pc \in {"search", "broaden", "cycleDelay"}) =>
            /\ cycle' >= cycle
            /\ pc' = "search" => cycle' = cycle + 1
            /\ pc' \in {"search", "broaden", "cycleDelay"} =>
                  Len(searchQueries') = Len(searchQueries)]_vars

\* ten cycles, broadened at the halfway index, all ten queries executed
C35_Witness ==
    /\ mode = "topic"
    /\ cycles = 10
    /\ broaderQueries # <<>>
    /\ Len(executed) = 10
    /\ pc = "search"

\* C39: a store operation on one task id leaves every other task's record
\* as it was, and leaves it in the store
C39_OtherTasksUntouched ==
    [][(OpDone /\ opLog'.op \in UpdateOps) =>
          \A id \in DOMAIN tasks \ {opLog'.id} :
              /\ id \in DOMAIN tasks'
              /\ tasks'[id] = tasks[id]]_vars

\* two tasks in the store; the second was completed after the clock moved on,
\* the first is still pending with its older time stamp
C39_Witness ==
    /\ DOMAIN tasks = {1, 2}
    /\ opLog.op = "completeTask"
    /\ opLog.id = 2
    /\ tasks[2].status = "complete"
    /\ tasks[1].status = "pending"
    /\ tasks[1].lastUpdate < tasks[2].lastUpdate

\* C34: every successful download of a task has a file of its own: the paths
\* of the successful list are pairwise different
C34_OneFilePerDownload ==
    Cardinality(Range(successful)) = Len(successful)

(***************************************************************************)
(* SpecGap: one gap-analysis request (POST /api/gap-analysis,               *)
(* processGapAnalysis) and its task in the GapTaskManager; lists are kept    *)
(* as their lengths                                                          *)
(***************************************************************************)
\* analysisTypes: z.array(z.enum(['gaps', 'comparisons', 'directions', 'all']))
AnalysisTypes == SUBSET {"gaps", "comparisons", "directions", "all"}

\* papers: z.coerce.number().min(5).max(100)
GapTarget == 5

\* generateSearchQueries(topic, 3) returns three queries
GapQueries == 3

\* how many new papers one search adds, and how many items an analysis yields
GapBatches == {0, 1, GapTarget}
ItemCounts == 0..MaxItems

\* analysisTypes.includes(t) || analysisTypes.includes('all')
Includes(types, t) == t \in types \/ "all" \in types

\* createGapTask: the new GapTaskStatus
NewGapTask(t) ==
    [status |-> "pending", progress |-> 0, stage |-> "Initializing...",
     papersFound |-> 0, gapsIdentified |-> 0, comparisonsComplete |-> 0,
     directionsGenerated |-> 0, error |-> "undefined", lastUpdate |-> t]

\* updateGapProgress(taskId, status, stage, progress, papersFound,
\* gapsIdentified, directionsGenerated) on the task of the request
UpdateGapProgress(g, status, stage, progress, papersFound, gapsIdentified, directionsGenerated) ==
    [g EXCEPT !.task = [@ EXCEPT !.status = status, !.stage = stage,
                                 !.progress = progress,
                                 !.papersFound = papersFound,
                                 !.gapsIdentified = gapsIdentified,
                                 !.directionsGenerated = directionsGenerated,
                                 !.lastUpdate = now]]

CompleteGapTask(g) ==
    [g EXCEPT !.task = [@ EXCEPT !.status = "complete", !.progress = 100,
                                 !.stage = "Analysis complete", !.lastUpdate = now],
              !.pc = "done"]

\* failGapTask: status error, the message as error and stage; the rest stays
FailGapTask(g, error) ==
    [g EXCEPT !.task = [@ EXCEPT !.status = "error", !.error = error,
                                 !.stage = error, !.lastUpdate = now],
              !.pc = "done"]

\* the catch block of processGapAnalysis
GapCatch(g) == FailGapTask(g, "Analysis failed: error")

\* mutant: the search progress as a share of 100
SearchProgress_OfHundred(i, n) == MathRound(5 * n + i * 100, n)

\* Math.round(5 + (i / queries.length) * 25)
SearchProgress(i, n) == MathRound(5 * n + i * 25, n)

\* PHASE 6: the report of 95 and the await of writeFile
GapFinalize(g) ==
    [UpdateGapProgress(g, "generating", "Compiling results...", 95, g.found,
                       g.gaps, g.directions)
        EXCEPT !.pc = "writeResult"]

\* PHASE 5 up to the await of llmSuggestDirections; d directions come from
\* generateDirections and suggestNovelAngles
GapDirections(g, d) ==
    IF Includes(g.types, "directions")
    THEN [UpdateGapProgress(
              UpdateGapProgress(g, "generating", "Generating research directions...",
                                85, g.found, g.gaps, g.comparisons),
              "generating", "Running AI direction suggestions...", 90, g.found,
              g.gaps, g.comparisons)
            EXCEPT !.directions = d, !.pc = "llmDirections"]
    ELSE GapFinalize(g)

\* PHASE 4 up to the await of llmCompareMethodologies; c comparisons come from
\* compareMethodologies, findDifferentApproaches and the contradictions
GapCompare(g, c, d) ==
    IF Includes(g.types, "comparisons")
    THEN [UpdateGapProgress(
              UpdateGapProgress(g, "comparing", "Comparing methodologies...", 70,
                                g.found, g.gaps, 0),
              "comparing", "Running AI methodology comparison...", 78, g.found,
              g.gaps, c)
            EXCEPT !.comparisons = c, !.pc = "llmCompare"]
    ELSE GapDirections(g, d)

\* after the search loop: fail on no paper, else PHASE 2 and PHASE 3 up to the
\* await of findUnderResearchedAreas
GapAfterSearch(g, c, d) ==
    IF g.found = 0
    THEN FailGapTask(g, "No papers found for this topic")
    ELSE LET h == UpdateGapProgress(g, "collecting", "Preparing papers for analysis...",
                                    30, g.found, 0, 0)
         IN IF Includes(g.types, "gaps")
            THEN [UpdateGapProgress(h, "analyzing", "Analyzing research gaps...", 50,
                                    g.found, 0, 0)
                    EXCEPT !.pc = "algoGaps"]
            ELSE GapCompare(h, c, d)

\* the head of the search loop at index i, up to the await of searchPapers
GapLoopHead(g, i, c, d) ==
    IF i < GapQueries /\ ~(g.found >= g.target)
    THEN [UpdateGapProgress(g, "searching", "Searching (i/n)...",
                            SearchProgress(i, GapQueries), g.found, 0, 0)
            EXCEPT !.i = i, !.pc = "search"]
    ELSE GapAfterSearch(g, c, d)

\* POST: createGapTask, then processGapAnalysis up to await ensureDir(taskDir)
GapPost(types) ==
    /\ gap.pc = "idle"
    /\ gap' = [pc |-> "ensureDir", task |-> NewGapTask(now), types |-> types,
               target |-> GapTarget, i |-> 0, found |-> 0, gaps |-> 0,
               comparisons |-> 0, directions |-> 0]
    /\ UNCHANGED <<storeVars, storeOtherVars, opLog, held, call>>

\* ensureDir returns or throws
GapStart(ok) ==
    /\ gap.pc = "ensureDir"
    /\ gap' = IF ok
              THEN [UpdateGapProgress(gap, "searching", "Generating search queries...",
                                      0, 0, 0, 0)
                      EXCEPT !.pc = "genQueries"]
              ELSE GapCatch(gap)
    /\ UNCHANGED <<storeVars, storeOtherVars, opLog, held, call>>

\* generateSearchQueries returns: the loop starts
GapQueriesReturn ==
    /\ gap.pc = "genQueries"
    /\ gap' = GapLoopHead(gap, 0, 0, 0)
    /\ UNCHANGED <<storeVars, storeOtherVars, opLog, held, call>>

\* searchPapers returns n new papers or throws; then the delay or the rest
GapSearchReturn(thrown, n, c, d) ==
    /\ gap.pc = "search"
    /\ LET g == [gap EXCEPT !.found = Min(gap.found + n, gap.target)]
       IN gap' = IF thrown THEN GapCatch(gap)
                 ELSE IF gap.i < GapQueries - 1 THEN [g EXCEPT !.pc = "delay"]
                 ELSE GapLoopHead(g, gap.i + 1, c, d)
    /\ UNCHANGED <<storeVars, storeOtherVars, opLog, held, call>>

\* the 500 ms delay is over
GapDelayDone(c, d) ==
    /\ gap.pc = "delay"
    /\ gap' = GapLoopHead(gap, gap.i + 1, c, d)
    /\ UNCHANGED <<storeVars, storeOtherVars, opLog, held, call>>

\* findUnderResearchedAreas returns n gaps or throws
GapAlgoReturn(thrown, n) ==
    /\ gap.pc = "algoGaps"
    /\ gap' = IF thrown THEN GapCatch(gap)
              ELSE [UpdateGapProgress([gap EXCEPT !.gaps = n], "analyzing",
                                      "Running AI gap analysis...", 60, gap.found, n, 0)
                      EXCEPT !.pc = "llmGaps"]
    /\ UNCHANGED <<storeVars, storeOtherVars, opLog, held, call>>

\* llmAnalyzeGaps returns (null or gaps) or throws; n gaps are left after
\* deduplicateGaps
GapLLMGapsReturn(thrown, n, c, d) ==
    /\ gap.pc = "llmGaps"
    /\ n >= (IF gap.gaps > 0 THEN 1 ELSE 0)
    /\ gap' = IF thrown THEN GapCatch(gap)
              ELSE GapCompare([gap EXCEPT !.gaps = n], c, d)
    /\ UNCHANGED <<storeVars, storeOtherVars, opLog, held, call>>

\* llmCompareMethodologies returns a comparison, null, or throws
GapLLMCompareReturn(thrown, found, d) ==
    /\ gap.pc = "llmCompare"
    /\ gap' = IF thrown THEN GapCatch(gap)
              ELSE GapDirections([gap EXCEPT !.comparisons =
                                     IF found THEN gap.comparisons + 1
                                     ELSE gap.comparisons], d)
    /\ UNCHANGED <<storeVars, storeOtherVars, opLog, held, call>>

\* llmSuggestDirections returns or throws; n directions are left after
\* deduplication, ranking and slice(0, 10)
GapLLMDirectionsReturn(thrown, n) ==
    /\ gap.pc = "llmDirections"
    /\ gap' = IF thrown THEN GapCatch(gap)
              ELSE GapFinalize([gap EXCEPT !.directions = n])
    /\ UNCHANGED <<storeVars, storeOtherVars, opLog, held, call>>

\* writeFile(gap-analysis-result.json) returns or throws
GapResultWritten(ok) ==
    /\ gap.pc = "writeResult"
    /\ gap' = IF ok THEN [gap EXCEPT !.pc = "summary"] ELSE GapCatch(gap)
    /\ UNCHANGED <<storeVars, storeOtherVars, opLog, held, call>>

\* generateSummaryReport returns true or false: completeGapTask
GapSummaryReturn ==
    /\ gap.pc = "summary"
    /\ gap' = CompleteGapTask(gap)
    /\ UNCHANGED <<storeVars, storeOtherVars, opLog, held, call>>

NextGap ==
    \/ \E types \in AnalysisTypes : GapPost(types)
    \/ \E ok \in BOOLEAN : GapStart(ok)
    \/ GapQueriesReturn
    \/ \E thrown \in BOOLEAN, n \in GapBatches, c \in ItemCounts, d \in ItemCounts :
          GapSearchReturn(thrown, n, c, d)
    \/ \E c \in ItemCounts, d \in ItemCounts : GapDelayDone(c, d)
    \/ \E thrown \in BOOLEAN, n \in ItemCounts : GapAlgoReturn(thrown, n)
    \/ \E thrown \in BOOLEAN, n \in ItemCounts, c \in ItemCounts, d \in ItemCounts :
          GapLLMGapsReturn(thrown, n, c, d)
    \/ \E thrown \in BOOLEAN, found \in BOOLEAN, d \in ItemCounts :
          GapLLMCompareReturn(thrown, found, d)
    \/ \E thrown \in BOOLEAN, n \in ItemCounts : GapLLMDirectionsReturn(thrown, n)
    \/ \E ok \in BOOLEAN : GapResultWritten(ok)
    \/ GapSummaryReturn

SpecGap == Init /\ [][NextGap]_vars

\* the order of the phases of a gap-analysis task
GapRank(status) ==
    CASE status = "pending" -> 0
      [] status = "searching" -> 1
      [] status = "collecting" -> 2
      [] status = "analyzing" -> 3
      [] status = "comparing" -> 4
      [] status = "generating" -> 5
      [] status \in {"complete", "error"} -> 6

\* C31: the status of a gap-analysis task never moves back in the order
\* pending, searching, collecting, analyzing, comparing, generating, then
\* complete or error; complete and error are final; the progress never
\* decreases
C31_GapStatusOnlyMovesForward ==
    [][gap.pc # "idle" =>
          /\ GapRank(gap'.task.status) >= GapRank(gap.task.status)
          /\ Terminal(gap.task.status) => gap'.task = gap.task
          /\ gap'.task.progress >= gap.task.progress]_vars

\* a request for comparisons only has completed: analyzing was skipped
C31_Witness ==
    /\ gap.pc = "done"
    /\ gap.types = {"comparisons"}
    /\ gap.task.status = "complete"
    /\ gap.task.progress = 100
    /\ gap.comparisons > 0

\* C38: in every state a progress update left behind, directionsGenerated is
\* the number of directions produced so far and comparisonsComplete the
\* number of comparisons produced so far
C38_GapCountersMatch ==
    (gap.pc # "idle" /\ gap.task.status \notin {"pending", "error"}) =>
        /\ gap.task.directionsGenerated = gap.directions
        /\ gap.task.comparisonsComplete = gap.comparisons

====
